---- MODULE Spec2Model ----
(***************************************************************************)
(* A model of the inference engines of ms-swift:                           *)
(*   - PtEngine.infer, its sub-batch wrappers, the batched streaming       *)
(*     decode loop PtEngine._infer_stream and the one-shot                 *)
(*     PtEngine._infer_full (swift/llm/infer/infer_engine/pt_engine.py);   *)
(*   - the queue based fan-out of InferEngine._infer_stream and            *)
(*     InferEngine._run_infer, with its metric observers                   *)
(*     (swift/llm/infer/base.py);                                          *)
(*   - the resolution of a request's configuration:                        *)
(*     InferEngine.set_default_max_tokens and                              *)
(*     PtEngine._prepare_generation_config, and the entry points that      *)
(*     reach them.                                                         *)
(* Python's None is the empty sequence <<>>; an optional value v that is   *)
(* present is the one-element sequence <<v>>.  Positions are 1-based here  *)
(* and 0-based in the source; the wrapper's index i keeps the source's     *)
(* value (an offset).                                                      *)
(***************************************************************************)
EXTENDS Integers, Sequences, FiniteSets, TLC

\* ------------------------------------------------------------- bounds
MaxRequests == 3
MaxBatchSize == 2
MaxNewTokens == 3
\* the most tokens one infer call may generate: requests * max_new_tokens
MaxGenerated == 6
MaxPromptTokens == 2
MaxTasks == 2
MaxOutputs == 2
\* the most outputs all the tasks of one fan-out call may put together
MaxProduced == 3
MaxMetrics == 1
MaxTokensArg == 3
MaxModelLen == 3
\* the max_tokens a caller of PtEngine.infer asks for, when it asks
RequestedMaxTokens == 2

\* ------------------------------------------------- program constants
\* the max_model_len assumed when the model cannot tell its own
DefaultMaxModelLen == 8192
\* the values _prepare_generation_config forces for greedy decoding;
\* temperature and top_p are counted in tenths (10 is 1.0)
GreedyTemperature == 10
GreedyTopP == 10
GreedyTopK == 50

\* --------------------------------------------------------- vocabulary
None == <<>>
Some(v) == <<v>>
\* an optional value drawn from a set
Optional(values) == {None} \cup {Some(v) : v \in values}

\* generation_config.pad_token_id and the tokenizer's end token
pad_token_id == "pad"
eos_token_id == "eos"
\* "a" ends a printable unit, "p" is a fragment the detokenizer holds back
TextTokens == {"a", "p"}
PromptToken == "x"

Min(a, b) == IF a < b THEN a ELSE b
Max(a, b) == IF a > b THEN a ELSE b

VARIABLES
    \* ---- PtEngine.infer: the call's arguments
    infer_requests,      \* the requests, each named by its position 1..N
    max_batch_size,
    stream,              \* request_config.stream
    num_beams,           \* generation_config.num_beams
    max_new_tokens,      \* generation_config.max_new_tokens
    num_prompt_tokens,   \* self._get_num_tokens(inputs)
    engine_max_model_len,\* self.max_model_len
    request_max_tokens,  \* request_config.max_tokens (the object is mutated)
    \* ---- PtEngine.infer: the wrappers _infer_full / _infer_stream
    pc,                  \* "call" | "decode" | "done" | "raised"
    i,                   \* the wrapper's offset into infer_requests
    res,                 \* _infer_full's accumulated result list
    calls,               \* history: every self._infer call made, [start, size]
    yielded,             \* history: every snapshot the caller received, in
                         \* order, with the wrapper's i at the yield and the
                         \* rows already padded before the sweep
    \* ---- PtEngine._infer_stream: one sub-batch's decode loop
    samples,             \* infer_requests_samples, the rows of the batch
    thread,              \* "idle" | "running" | "ended" | "crashed"
    started,             \* history: how many generation threads were started
    streamer,            \* TokensIteratorStreamer's queue
    generated,           \* the backend's own rows of generated tokens
    prompt_put,          \* the backend has streamed the prompt
    raw_batched_generate_ids,
    all_is_finished,
    is_finished,
    infer_streamers,     \* per row: the InferStreamer's print index
    token_idxs,
    streamed,            \* history, per request: the deltas its InferStreamer
                         \* returned, concatenated
    \* ---- InferEngine._infer_stream: the fan-out path
    fo_stream,           \* the stream flag handed to _run_infer
    fo_tasks,            \* per task: "run" | "done" | "failed" | "cancelled"
    fo_produced,         \* per task: how many outputs it has put
    fo_queue,            \* the shared Queue of <<i, output>>
    fo_loop,             \* the asyncio thread: "idle" | "running" | "failing" | "finished" | "died"
    fo_pc,               \* the consumer: "start" | "spawn" | "get" | "done" | "raised"
    fo_n_finished,
    fo_outputs,
    fo_yielded,
    fo_metrics,          \* per metric observer: the calls it received, in order
    \* ---- the resolution of a request's configuration
    cf_entry,            \* the method the caller called
    cf_arg,              \* history: the request_config argument as passed
    cf_request_config,   \* the RequestConfig object in use (mutated in place)
    cf_strict,           \* set_default_max_tokens's strict argument
    cf_max_model_len,    \* self.max_model_len
    cf_num_tokens,       \* self._get_num_tokens(inputs)
    cf_default,          \* self.generation_config, the engine default
    cf_generation_config,\* the GenerationConfig produced
    cf_pc,               \* "call" | "default" | "budget" | "prepare" | "done" | "raised"
    cf_error,            \* the exception raised, "" when none
    \* ---- the engines' helper functions, called on their own
    tl_fn,               \* the function called
    tl_in,               \* its arguments
    tl_out,              \* what it returned, None before
    tl_pc,               \* "call" | "done"
    tl_uuids             \* how many random_uuid() values were drawn

VARIABLES
    \* ---- PtEngine's adapter pool
    ad_pool,             \* _lora_request_pool: name -> request, None when absent
    ad_loaded,           \* name -> number of Swift.from_pretrained calls for it
    ad_request,          \* the argument of the last _get_adapter_names call, None before
    ad_raised,           \* the exception the last call raised, "" when none
    ad_calls             \* number of calls made

VARIABLES
    \* ---- EncodePreprocessor: eager preprocessing, num_proc == 1 or worker processes
    mp_dataset,          \* the examples, each with what template.encode does on it
    mp_arg,              \* the num_proc argument of __call__
    mp_pos,              \* rank -> number of examples of its shard already mapped
    mp_result,           \* rank -> the worker's result list so far
    mp_worker,           \* rank -> "running" | "ready" | "failed"
    mp_queue,            \* the manager queue
    mp_shard_results,    \* rank -> the shard result placed by mp_map, None before
    mp_order,            \* ranks in the order their results were dequeued
    mp_pc,               \* "map" | "test" | "test2" | "concat" | "returned" | "raised"
    mp_res,              \* data_list, the list of encodings
    mp_error             \* the exception that ended the pass, "" when none

VARIABLES
    \* ---- LazyLLMDataset: lazy encoding with re-sampling
    lz_dataset,          \* the wrapped dataset, each example with what encode_func does on it
    lz_configured,       \* the try_fetch_time argument of __init__
    lz_try_fetch_time,   \* self.try_fetch_time
    lz_idx,              \* the index of the current __getitem__ call
    lz_candidates,       \* [first_idx] + idx.tolist() of the current _try_fetch
    lz_attempts,         \* the indices encode_func was called on, in order
    lz_pc,               \* "idle" | "fetch" | "returned" | "raised"
    lz_res,              \* what __getitem__ returned, None otherwise
    lz_calls             \* number of __getitem__ calls made

VARIABLES
    \* ---- LLMIterableDataset.__iter__
    it_dataset,          \* the wrapped dataset, each example with what the mapped encode does on it
    it_max_retries,      \* self.max_retries
    it_pos,              \* number of examples the current iterator has handed out
    it_retries,          \* retries
    it_pc,               \* "next" | "raised" | "returned"
    it_yielded,          \* indices (from 1) of the examples yielded, in order
    it_restarts,         \* number of times iter(self.dataset) was called again
    it_log               \* history: what each next(iterator) came to, in order

VARIABLES
    \* ---- VllmEngine._infer_stream_async: one request, n choices
    vl_outputs,          \* result.outputs: per choice the token ids so far and the finish_reason
    vl_print_idx,        \* infer_streamers: per choice the print index
    vl_yielded,          \* the responses yielded, each its list of choices
    vl_results,          \* number of results the generator handed out
    vl_pc                \* "stream" | "done"

VARIABLES
    \* ---- one RequestConfig over the sub-batches / request tasks of an infer call
    bg_entry,            \* "PtEngine.infer" | "InferEngine.infer" | "none"
    bg_num_tokens,       \* _get_num_tokens(inputs) of each sub-batch / request, in call order
    bg_max_model_len,    \* self.max_model_len
    bg_arg,              \* history: request_config.max_tokens as the caller passed it
    bg_request_config,   \* request_config.max_tokens of the caller's object now
    bg_used,             \* history: the max_new_tokens each call generated with
    bg_pc                \* "call" | "done"

VARIABLES
    \* ---- ConstantLengthDataset.__iter__
    cl_dataset,          \* self.dataset: each example with the length of its values and what encode does on it
    cl_max_buffer_size,  \* self.max_buffer_size
    cl_pos,              \* number of examples next(iterator) has handed out
    cl_buffer,           \* buffer
    cl_buffer_len,       \* buffer_len
    cl_more_examples,    \* more_examples
    cl_pc,               \* "fill" | "pack" | "done" | "raised"
    cl_sequences         \* history: the examples handed to calculate_matched_group, in order

ptVars == <<infer_requests, max_batch_size, stream, num_beams, max_new_tokens,
            num_prompt_tokens, engine_max_model_len,
            request_max_tokens, pc, i, res, calls, yielded, samples, thread,
            started, streamer, generated, prompt_put, raw_batched_generate_ids,
            all_is_finished, is_finished, infer_streamers, token_idxs, streamed>>

foVars == <<fo_stream, fo_tasks, fo_produced, fo_queue, fo_loop, fo_pc,
            fo_n_finished, fo_outputs, fo_yielded, fo_metrics>>

cfVars == <<cf_entry, cf_arg, cf_request_config, cf_strict, cf_max_model_len,
            cf_num_tokens, cf_default, cf_generation_config, cf_pc, cf_error>>

tlVars == <<tl_fn, tl_in, tl_out, tl_pc, tl_uuids>>

adVars == <<ad_pool, ad_loaded, ad_request, ad_raised, ad_calls>>

mpVars == <<mp_dataset, mp_arg, mp_pos, mp_result, mp_worker, mp_queue, mp_shard_results, mp_order, mp_pc, mp_res, mp_error>>

lzVars == <<lz_dataset, lz_configured, lz_try_fetch_time, lz_idx, lz_candidates, lz_attempts, lz_pc, lz_res, lz_calls>>

itVars == <<it_dataset, it_max_retries, it_pos, it_retries, it_pc, it_yielded, it_restarts,
           it_log>>

vlVars == <<vl_outputs, vl_print_idx, vl_yielded, vl_results, vl_pc>>

bgVars == <<bg_entry, bg_num_tokens, bg_max_model_len, bg_arg, bg_request_config, bg_used, bg_pc>>

clVars == <<cl_dataset, cl_max_buffer_size, cl_pos, cl_buffer, cl_buffer_len, cl_more_examples, cl_pc, cl_sequences>>

vars == <<ptVars, foVars, cfVars, tlVars, adVars, mpVars, lzVars, itVars, vlVars, bgVars, clVars>>

\* what the actions of one part leave alone: the other parts
restPt == <<foVars, cfVars, tlVars, adVars, mpVars, lzVars, itVars, vlVars, bgVars, clVars>>
restFo == <<ptVars, cfVars, tlVars, adVars, mpVars, lzVars, itVars, vlVars, bgVars, clVars>>
restCf == <<ptVars, foVars, tlVars, adVars, mpVars, lzVars, itVars, vlVars, bgVars, clVars>>
restTl == <<ptVars, foVars, cfVars, adVars, mpVars, lzVars, itVars, vlVars, bgVars, clVars>>
restAd == <<ptVars, foVars, cfVars, tlVars, mpVars, lzVars, itVars, vlVars, bgVars, clVars>>
restMp == <<ptVars, foVars, cfVars, tlVars, adVars, lzVars, itVars, vlVars, bgVars, clVars>>
restLz == <<ptVars, foVars, cfVars, tlVars, adVars, mpVars, itVars, vlVars, bgVars, clVars>>
restIt == <<ptVars, foVars, cfVars, tlVars, adVars, mpVars, lzVars, vlVars, bgVars, clVars>>
restVl == <<ptVars, foVars, cfVars, tlVars, adVars, mpVars, lzVars, itVars, bgVars, clVars>>
restBg == <<ptVars, foVars, cfVars, tlVars, adVars, mpVars, lzVars, itVars, vlVars, clVars>>
restCl == <<ptVars, foVars, cfVars, tlVars, adVars, mpVars, lzVars, itVars, vlVars, bgVars>>

\* ----------------------------------- pure helpers (configuration resolution)

\* RequestConfig(): every sampling field unset, no streaming
DefaultRequestConfig ==
    [max_tokens |-> None, temperature |-> None, top_k |-> None, top_p |-> None,
     repetition_penalty |-> None, num_beams |-> None, stream |-> FALSE]

\* `if max_model_len is None: max_model_len = 8192`
EffectiveMaxModelLen(max_model_len) ==
    IF max_model_len = None THEN DefaultMaxModelLen ELSE max_model_len[1]

\* max_max_tokens one more than what the model has left
MaxMaxTokensOffByOne(max_model_len, num_tokens) ==
    EffectiveMaxModelLen(max_model_len) - num_tokens + 1

\* max_max_tokens kept from going below 0
MaxMaxTokensFloored(max_model_len, num_tokens) ==
    Max(0, EffectiveMaxModelLen(max_model_len) - num_tokens)

\* max_max_tokens = max_model_len - num_tokens
MaxMaxTokens(max_model_len, num_tokens) ==
    EffectiveMaxModelLen(max_model_len) - num_tokens

\* the test `max_max_tokens < request_config.max_tokens` turned around
ExceedsBudgetReversed(max_max_tokens, max_tokens) == max_tokens < max_max_tokens

\* `elif max_max_tokens < request_config.max_tokens`
ExceedsBudget(max_max_tokens, max_tokens) == max_max_tokens < max_tokens

\* set_default_max_tokens assigning the clamped value before its strict test
SetDefaultMaxTokensClampFirst(max_tokens, max_model_len, num_tokens, strict) ==
    LET max_max_tokens == MaxMaxTokens(max_model_len, num_tokens)
    IN IF max_tokens = None
       THEN [raised |-> FALSE, max_tokens |-> Some(max_max_tokens)]
       ELSE IF ExceedsBudget(max_max_tokens, max_tokens[1])
            THEN [raised |-> strict, max_tokens |-> Some(max_max_tokens)]
            ELSE [raised |-> FALSE, max_tokens |-> max_tokens]

\* set_default_max_tokens: whether it raises, and request_config.max_tokens
\* when it returns or raises
SetDefaultMaxTokens(max_tokens, max_model_len, num_tokens, strict) ==
    LET max_max_tokens == MaxMaxTokens(max_model_len, num_tokens)
    IN IF max_tokens = None
       THEN [raised |-> FALSE, max_tokens |-> Some(max_max_tokens)]
       ELSE IF ExceedsBudget(max_max_tokens, max_tokens[1])
            THEN IF strict
                 THEN [raised |-> TRUE, max_tokens |-> max_tokens]
                 ELSE [raised |-> FALSE, max_tokens |-> Some(max_max_tokens)]
            ELSE [raised |-> FALSE, max_tokens |-> max_tokens]

\* `new_value = getattr(request_config, key)`, the engine default when None
ResolveField(request_config, generation_config, key) ==
    IF request_config[key] = None THEN generation_config[key]
    ELSE request_config[key][1]

\* _prepare_generation_config with the `if not do_sample` override lost
ResolvedTemperatureNoOverride(request_config, generation_config) ==
    ResolveField(request_config, generation_config, "temperature")

\* kwargs['temperature'] after `if not self.generation_config.do_sample`
ResolvedTemperature(request_config, generation_config) ==
    IF ~generation_config.do_sample THEN 0
    ELSE ResolveField(request_config, generation_config, "temperature")

\* PtEngine._prepare_generation_config
PrepareGenerationConfig(request_config, generation_config) ==
    LET temperature == ResolvedTemperature(request_config, generation_config)
        greedy == temperature = 0
    IN [max_new_tokens |-> request_config.max_tokens,
        repetition_penalty |->
            ResolveField(request_config, generation_config, "repetition_penalty"),
        num_beams |-> ResolveField(request_config, generation_config, "num_beams"),
        do_sample |-> ~greedy,
        temperature |-> IF greedy THEN GreedyTemperature ELSE temperature,
        top_p |-> IF greedy THEN GreedyTopP
                  ELSE ResolveField(request_config, generation_config, "top_p"),
        top_k |-> IF greedy THEN GreedyTopK
                  ELSE ResolveField(request_config, generation_config, "top_k")]

\* ------------------------------------------------- pure helpers (PtEngine)

\* The slice one short: infer_requests[i:i + max_batch_size - 1]
SliceShort(list, lo, hi) == SubSeq(list, lo + 1, Min(hi - 1, Len(list)))

\* infer_requests[i:i + max_batch_size]: Python's slice, clipped at the end
Slice(list, lo, hi) == SubSeq(list, lo + 1, Min(hi, Len(list)))

\* res[lo:hi] = value: the slice is replaced by value, whatever its length
SliceAssign(list, lo, hi, value) ==
    SubSeq(list, 1, Min(lo, Len(list))) \o value
        \o SubSeq(list, Max(Min(hi, Len(list)), Min(lo, Len(list))) + 1, Len(list))

\* [None] * n
Nones(n) == [k \in 1..n |-> None]

\* template.get_generate_ids: the prompt's columns are cut off a row
get_generate_ids(raw_row) == SubSeq(raw_row, num_prompt_tokens + 1, Len(raw_row))

\* generate_ids[masks] with masks = generate_ids != pad_token_id
MaskPad(generate_ids) == SelectSeq(generate_ids, LAMBDA t : t # pad_token_id)

\* The end test without `all_is_finished or`
RowIsFinishedUnforced(all_finished, was_finished, generate_ids) ==
    \/ was_finished
    \/ (Len(generate_ids) > 0 /\ generate_ids[Len(generate_ids)] = pad_token_id)

\* The end test looking for the end token in the place of the masked pad
RowIsFinishedAtEos(all_finished, was_finished, generate_ids) ==
    \/ all_finished
    \/ was_finished
    \/ (Len(generate_ids) > 0 /\ generate_ids[Len(generate_ids)] = eos_token_id)

\* The end test of the decode loop, on the row's ids after the pad mask
RowIsFinished(all_finished, was_finished, generate_ids) ==
    \/ all_finished
    \/ was_finished
    \/ (Len(generate_ids) > 0 /\ generate_ids[Len(generate_ids)] = pad_token_id)

\* _get_finish_reason with its is_finished test lost
GetFinishReasonAlways(max_tokens, n_prompt, finished) ==
    IF n_prompt >= max_tokens THEN "length" ELSE "stop"

\* PtEngine._get_finish_reason, called with num_prompt_tokens
GetFinishReason(max_tokens, n_prompt, finished) ==
    IF finished
    THEN IF n_prompt >= max_tokens THEN "length" ELSE "stop"
    ELSE "None"

\* template decode with special tokens skipped: the text of a row
SafeDecode(generate_ids) == SelectSeq(generate_ids, LAMBDA t : t \in TextTokens)

\* InferStreamer: the text is printable up to its last complete unit, and
\* wholly once finished
PrintableEnd(text, finished) ==
    IF finished THEN Len(text)
    ELSE LET ends == {k \in 1..Len(text) : text[k] = "a"}
         IN IF ends = {} THEN 0 ELSE CHOOSE k \in ends : \A m \in ends : m <= k

\* InferStreamer.get_printable_text: the new print index
NextPrintIdx(print_idx, generate_ids, finished) ==
    Max(print_idx, PrintableEnd(SafeDecode(generate_ids), finished))

\* InferStreamer.get_printable_text: the text not returned before
GetPrintableText(print_idx, generate_ids, finished) ==
    SubSeq(SafeDecode(generate_ids), print_idx + 1,
           NextPrintIdx(print_idx, generate_ids, finished))

\* self._update_metrics / _update_metrics_wrapper hand the result through
UpdateMetrics(result) == result

\* ------------------------------------------ the backend (model.generate)

\* A row has ended once it holds the end token; the backend pads it after
RowEnded(row) == \E k \in 1..Len(row) : row[k] = eos_token_id

AllEnded(rows) == \A r \in 1..Len(rows) : RowEnded(rows[r])

\* The columns generate emits: pad for an ended row, a token otherwise
NextColumns(rows) ==
    {c \in [1..Len(rows) -> TextTokens \cup {eos_token_id, pad_token_id}] :
        \A r \in 1..Len(rows) : (c[r] = pad_token_id) <=> RowEnded(rows[r])}

\* generate stops at max_new_tokens, or when every row has ended
GenerationOver(rows) ==
    \/ Len(rows) = 0
    \/ Len(rows[1]) >= max_new_tokens
    \/ AllEnded(rows)

\* Every complete generation of a batch of n rows
RECURSIVE Generations(_)
Generations(rows) ==
    IF GenerationOver(rows) THEN {rows}
    ELSE UNION {Generations([r \in 1..Len(rows) |-> Append(rows[r], c[r])]) :
                    c \in NextColumns(rows)}

PromptRow == [k \in 1..num_prompt_tokens |-> PromptToken]

\* _model_generate, first streamer.put: the prompt, as one 2-d chunk
GenPutPrompt ==
    /\ thread = "running"
    /\ ~prompt_put
    /\ prompt_put' = TRUE
    /\ streamer' = Append(streamer, [r \in 1..Len(samples) |-> PromptRow])
    /\ UNCHANGED <<infer_requests, max_batch_size, stream, num_beams,
                   max_new_tokens, num_prompt_tokens, engine_max_model_len,
                   request_max_tokens, pc, i, res, calls,
                   yielded, samples, thread, started, generated,
                   raw_batched_generate_ids, all_is_finished, is_finished,
                   infer_streamers, token_idxs, streamed, restPt>>

\* _model_generate, one decoding step: streamer.put of the new tokens (1-d)
GenPutTokens ==
    /\ thread = "running"
    /\ prompt_put
    /\ ~GenerationOver(generated)
    /\ \E c \in NextColumns(generated) :
        /\ generated' = [r \in 1..Len(generated) |-> Append(generated[r], c[r])]
        /\ streamer' = Append(streamer, [r \in 1..Len(generated) |-> <<c[r]>>])
    /\ UNCHANGED <<infer_requests, max_batch_size, stream, num_beams,
                   max_new_tokens, num_prompt_tokens, engine_max_model_len,
                   request_max_tokens, pc, i, res, calls,
                   yielded, samples, thread, started, prompt_put,
                   raw_batched_generate_ids, all_is_finished, is_finished,
                   infer_streamers, token_idxs, streamed, restPt>>

\* _model_generate returns: streamer.end() puts the None sentinel
GenEnd ==
    /\ thread = "running"
    /\ prompt_put
    /\ GenerationOver(generated)
    /\ thread' = "ended"
    /\ streamer' = Append(streamer, None)
    /\ UNCHANGED <<infer_requests, max_batch_size, stream, num_beams,
                   max_new_tokens, num_prompt_tokens, engine_max_model_len,
                   request_max_tokens, pc, i, res, calls,
                   yielded, samples, started, generated, prompt_put,
                   raw_batched_generate_ids, all_is_finished, is_finished,
                   infer_streamers, token_idxs, streamed, restPt>>

\* model.generate raises inside the thread: the thread dies, nothing is put
GenRaise ==
    /\ thread = "running"
    /\ thread' = "crashed"
    /\ UNCHANGED <<infer_requests, max_batch_size, stream, num_beams,
                   max_new_tokens, num_prompt_tokens, engine_max_model_len,
                   request_max_tokens, pc, i, res, calls,
                   yielded, samples, started, streamer, generated, prompt_put,
                   raw_batched_generate_ids, all_is_finished, is_finished,
                   infer_streamers, token_idxs, streamed, restPt>>

\* ------------------------------------- PtEngine._infer_full (one sub-batch)

\* One response per row of output['sequences']: finish_reason is None
InferFull(rows, sequences) ==
    [r \in 1..Len(sequences) |->
        LET generate_ids == MaskPad(get_generate_ids(sequences[r]))
        IN [req |-> rows[r],
            content |-> SafeDecode(generate_ids),
            finish_reason |-> "None",
            completion_tokens |-> Len(generate_ids)]]

\* ----------------------------------- PtEngine._infer_stream (one sub-batch)

\* The row's generated ids after the prompt cut and the pad mask
RowIds(raw, r) == MaskPad(get_generate_ids(raw[r]))

RowFin(all_finished, raw, r) ==
    RowIsFinished(all_finished, is_finished[r], RowIds(raw, r))

RowDelta(all_finished, raw, r) ==
    GetPrintableText(infer_streamers[r], RowIds(raw, r), RowFin(all_finished, raw, r))

\* batched_logprobs[i] under the pad mask: one record per non-pad generated
\* column, computed at that column's decode step for the token generated there
LogprobsList(raw, r) ==
    LET generate_ids == get_generate_ids(raw[r])
        columns == [c \in 1..Len(generate_ids) |-> [step |-> c, token |-> generate_ids[c]]]
    IN SelectSeq(columns, LAMBDA column : column.token # pad_token_id)

\* generate_ids[token_idxs[i]:]
Drop(list, n) == SubSeq(list, n + 1, Len(list))

\* _get_logprobs on the decode loop's arguments: zip(logprobs_list, token_ids)
\* and the lookup logprobs[token_id]; found tells whether the record is the
\* one computed for that token (otherwise the lookup hits an alternative of
\* another step or raises KeyError).
StreamLogprobs(logprobs_list, token_ids) ==
    [k \in 1..Min(Len(logprobs_list), Len(token_ids)) |->
        [token |-> token_ids[k],
         step |-> logprobs_list[k].step,
         found |-> logprobs_list[k].token = token_ids[k]]]

\* The row's entry of res in one sweep of the loop body (logprobs requested)
RowResponse(all_finished, raw, r) ==
    IF is_finished[r] THEN None
    ELSE IF RowDelta(all_finished, raw, r) = <<>> /\ ~RowFin(all_finished, raw, r)
    THEN None
    ELSE Some([req |-> samples[r],
               delta |-> RowDelta(all_finished, raw, r),
               finish_reason |-> GetFinishReason(max_new_tokens, num_prompt_tokens,
                                                 RowFin(all_finished, raw, r)),
               completion_tokens |-> Len(RowIds(raw, r)),
               logprobs |-> StreamLogprobs(LogprobsList(raw, r),
                                           Drop(RowIds(raw, r), token_idxs[r]))])

\* the cursor moved in every sweep
NextTokenIdxAlways(token_idx, response, generate_ids) == Len(generate_ids)

\* token_idxs[i] = len(generate_ids), reached only when the row has a response
NextTokenIdx(token_idx, response, generate_ids) ==
    IF response = None THEN token_idx ELSE Len(generate_ids)

\* any(res)
AnyOf(list) == \E k \in 1..Len(list) : list[k] # None

\* the test of res dropped
ShouldYieldAlways(list) == TRUE

\* all(res) in the place of any(res)
ShouldYieldAll(list) == \A k \in 1..Len(list) : list[k] # None

\* if any(res): yield res
ShouldYield(list) == AnyOf(list)

\* torch.concat([raw, batched_tokens], dim=1); raw is None at first
Concat(raw, batched_tokens) ==
    IF raw = None THEN batched_tokens
    ELSE [r \in 1..Len(raw) |-> raw[r] \o batched_tokens[r]]

\* The wrapper yielding the sub-batch's response as it is
SnapshotUnplaced(response) == response

\* The wrapper's snapshot: res = [None] * len(infer_requests); res[i:i+B] = response
Snapshot(response) ==
    SliceAssign(Nones(Len(infer_requests)), i, i + max_batch_size, response)

\* History: the requests whose row had ended and was already padded by the
\* backend in a column the loop consumed before this sweep
EndedBefore(raw) ==
    IF raw = None THEN {}
    ELSE {samples[r] : r \in {q \in 1..Len(raw) :
            \E k \in 1..Len(raw[q]) : raw[q][k] = pad_token_id}}

\* next(streamer) blocks, with no timeout, until the queue holds an item
StreamerReady == streamer # <<>>

\* One pass of `while not all_is_finished`: next(streamer) (blocking), the
\* sweep over the rows, the yield through the wrapper, and, when the loop
\* ends, the wrapper's i += max_batch_size
DecodeStep ==
    /\ pc = "decode"
    /\ StreamerReady
    /\ LET batched_tokens == Head(streamer)
           all_now == (batched_tokens = None)
           raw == IF all_now THEN raw_batched_generate_ids
                  ELSE Concat(raw_batched_generate_ids, batched_tokens)
           rows == 1..Len(samples)
           response == [r \in rows |-> RowResponse(all_now, raw, r)]
       IN /\ streamer' = Tail(streamer)
          /\ all_is_finished' = all_now
          /\ raw_batched_generate_ids' = raw
          /\ is_finished' = [r \in rows |->
                IF is_finished[r] THEN TRUE ELSE RowFin(all_now, raw, r)]
          /\ infer_streamers' = [r \in rows |->
                IF is_finished[r] THEN infer_streamers[r]
                ELSE NextPrintIdx(infer_streamers[r], RowIds(raw, r),
                                  RowFin(all_now, raw, r))]
          /\ token_idxs' = [r \in rows |->
                NextTokenIdx(token_idxs[r], response[r], RowIds(raw, r))]
          /\ streamed' = [k \in DOMAIN streamed |->
                IF \E r \in rows : samples[r] = k /\ ~is_finished[r]
                THEN LET r == CHOOSE q \in rows : samples[q] = k
                     IN streamed[k] \o RowDelta(all_now, raw, r)
                ELSE streamed[k]]
          /\ yielded' = IF ShouldYield(response)
                        THEN Append(yielded,
                                [res |-> Snapshot(UpdateMetrics(response)),
                                 response |-> response,
                                 i |-> i,
                                 ended |-> EndedBefore(raw_batched_generate_ids)])
                        ELSE yielded
          /\ IF all_now
             THEN /\ i' = i + max_batch_size
                  /\ pc' = "call"
             ELSE UNCHANGED <<i, pc>>
    /\ UNCHANGED <<infer_requests, max_batch_size, stream, num_beams,
                   max_new_tokens, num_prompt_tokens, engine_max_model_len,
                   request_max_tokens, res, calls, samples,
                   thread, started, generated, prompt_put, restPt>>

\* ------------------------------------------------ PtEngine.infer wrappers

\* self.set_default_max_tokens(request_config, inputs) in PtEngine._infer,
\* then kwargs = {'max_new_tokens': request_config.max_tokens}
ResolvedMaxTokens ==
    SetDefaultMaxTokens(request_max_tokens, engine_max_model_len, num_prompt_tokens,
                        FALSE).max_tokens[1]

\* _infer_full's loop body: one synchronous sub-batch call
InferCallFull ==
    /\ pc = "call"
    /\ ~stream
    /\ i < Len(infer_requests)
    /\ request_max_tokens' = Some(ResolvedMaxTokens)
    /\ max_new_tokens' = ResolvedMaxTokens
    /\ LET infer_requests_samples == Slice(infer_requests, i, i + max_batch_size)
           empty == [r \in 1..Len(infer_requests_samples) |-> <<>>]
       IN /\ samples' = infer_requests_samples
          /\ calls' = Append(calls, [start |-> i, size |-> Len(infer_requests_samples)])
          /\ \E gen \in Generations(empty) :
                res' = res \o UpdateMetrics(InferFull(infer_requests_samples,
                            [r \in 1..Len(gen) |-> PromptRow \o gen[r]]))
    /\ i' = i + max_batch_size
    /\ UNCHANGED <<infer_requests, max_batch_size, stream, num_beams,
                   num_prompt_tokens, engine_max_model_len, pc, yielded, thread,
                   started, streamer, generated, prompt_put,
                   raw_batched_generate_ids, all_is_finished, is_finished,
                   infer_streamers, token_idxs, streamed, restPt>>

\* The beam check with the test lost
BeamCheckMissing == FALSE

\* if generation_config.num_beams != 1: raise ValueError
BeamSearchRequested == num_beams # 1

\* _infer_stream's loop body up to the decode loop's first next(streamer):
\* the sub-batch call, the beam check, the thread start, the row state
InferCallStream ==
    /\ pc = "call"
    /\ stream
    /\ i < Len(infer_requests)
    /\ request_max_tokens' = Some(ResolvedMaxTokens)
    /\ max_new_tokens' = ResolvedMaxTokens
    /\ LET infer_requests_samples == Slice(infer_requests, i, i + max_batch_size)
           batch_size == Len(infer_requests_samples)
       IN /\ samples' = infer_requests_samples
          /\ calls' = Append(calls, [start |-> i, size |-> batch_size])
          /\ IF BeamSearchRequested
             THEN /\ pc' = "raised"
                  /\ UNCHANGED <<thread, started, streamer, generated, prompt_put,
                                 raw_batched_generate_ids, all_is_finished,
                                 is_finished, infer_streamers, token_idxs>>
             ELSE /\ pc' = "decode"
                  /\ thread' = "running"
                  /\ started' = started + 1
                  /\ streamer' = <<>>
                  /\ generated' = [r \in 1..batch_size |-> <<>>]
                  /\ prompt_put' = FALSE
                  /\ raw_batched_generate_ids' = None
                  /\ all_is_finished' = FALSE
                  /\ is_finished' = [r \in 1..batch_size |-> FALSE]
                  /\ infer_streamers' = [r \in 1..batch_size |-> 0]
                  /\ token_idxs' = [r \in 1..batch_size |-> 0]
    /\ UNCHANGED <<infer_requests, max_batch_size, stream, num_beams,
                   num_prompt_tokens, engine_max_model_len, i, res, yielded,
                   streamed, restPt>>

\* The wrapper's loop ends: return res / the generator is exhausted
InferReturn ==
    /\ pc = "call"
    /\ i >= Len(infer_requests)
    /\ pc' = "done"
    /\ UNCHANGED <<infer_requests, max_batch_size, stream, num_beams,
                   max_new_tokens, num_prompt_tokens, engine_max_model_len,
                   request_max_tokens, i, res, calls, yielded,
                   samples, thread, started, streamer, generated, prompt_put,
                   raw_batched_generate_ids, all_is_finished, is_finished,
                   infer_streamers, token_idxs, streamed, restPt>>

\* ------------------------------------------------- specification: PtEngine

\* the engine default generation_config of a model that samples or not
EngineDefault(do_sample, temperature) ==
    [do_sample |-> do_sample, temperature |-> temperature, top_k |-> 40,
     top_p |-> 8, repetition_penalty |-> 10, num_beams |-> 1]

CfIdle ==
    /\ cf_entry = "none"
    /\ cf_arg = None
    /\ cf_request_config = None
    /\ cf_strict = FALSE
    /\ cf_max_model_len = None
    /\ cf_num_tokens = 0
    /\ cf_default = EngineDefault(FALSE, 0)
    /\ cf_generation_config = None
    /\ cf_pc = "done"
    /\ cf_error = ""

AdIdle ==
    /\ ad_pool = <<>>
    /\ ad_loaded = <<>>
    /\ ad_request = None
    /\ ad_raised = ""
    /\ ad_calls = 0

MpIdle ==
    /\ mp_dataset = <<>>
    /\ mp_arg = 0
    /\ mp_pos = <<>>
    /\ mp_result = <<>>
    /\ mp_worker = <<>>
    /\ mp_queue = <<>>
    /\ mp_shard_results = <<>>
    /\ mp_order = <<>>
    /\ mp_pc = "returned"
    /\ mp_res = <<>>
    /\ mp_error = ""

LzIdle ==
    /\ lz_dataset = <<>>
    /\ lz_configured = 0
    /\ lz_try_fetch_time = 0
    /\ lz_idx = 0
    /\ lz_candidates = <<>>
    /\ lz_attempts = <<>>
    /\ lz_pc = "idle"
    /\ lz_res = None
    /\ lz_calls = 0

ItIdle ==
    /\ it_dataset = <<>>
    /\ it_max_retries = 0
    /\ it_pos = 0
    /\ it_retries = 0
    /\ it_pc = "returned"
    /\ it_yielded = <<>>
    /\ it_restarts = 0
    /\ it_log = <<>>

VlIdle ==
    /\ vl_outputs = <<>>
    /\ vl_print_idx = <<>>
    /\ vl_yielded = <<>>
    /\ vl_results = 0
    /\ vl_pc = "done"

BgIdle ==
    /\ bg_entry = "none"
    /\ bg_num_tokens = <<>>
    /\ bg_max_model_len = None
    /\ bg_arg = None
    /\ bg_request_config = None
    /\ bg_used = <<>>
    /\ bg_pc = "done"

ClIdle ==
    /\ cl_dataset = <<>>
    /\ cl_max_buffer_size = 1
    /\ cl_pos = 0
    /\ cl_buffer = <<>>
    /\ cl_buffer_len = 0
    /\ cl_more_examples = FALSE
    /\ cl_pc = "done"
    /\ cl_sequences = <<>>

TlIdle ==
    /\ tl_fn = "none"
    /\ tl_in = <<>>
    /\ tl_out = None
    /\ tl_pc = "done"
    /\ tl_uuids = 0

FoIdle ==
    /\ fo_stream = FALSE
    /\ fo_tasks = <<>>
    /\ fo_produced = <<>>
    /\ fo_queue = <<>>
    /\ fo_loop = "finished"
    /\ fo_pc = "done"
    /\ fo_n_finished = 0
    /\ fo_outputs = <<>>
    /\ fo_yielded = <<>>
    /\ fo_metrics = <<>>

InitPt ==
    /\ \E n \in 1..MaxRequests : infer_requests = [k \in 1..n |-> k]
    /\ max_batch_size \in 1..MaxBatchSize
    /\ stream \in BOOLEAN
    /\ num_beams \in {1, 2}
    /\ num_prompt_tokens \in {1, MaxPromptTokens}
    /\ engine_max_model_len \in {Some(num_prompt_tokens + k) : k \in 0..MaxNewTokens}
    /\ request_max_tokens \in Optional({RequestedMaxTokens})
    \* generation_config.max_new_tokens, as every sub-batch call resolves it
    /\ max_new_tokens = ResolvedMaxTokens
    /\ Len(infer_requests) * max_new_tokens <= MaxGenerated
    /\ pc = "call"
    /\ i = 0
    /\ res = <<>>
    /\ calls = <<>>
    /\ yielded = <<>>
    /\ samples = <<>>
    /\ thread = "idle"
    /\ started = 0
    /\ streamer = <<>>
    /\ generated = <<>>
    /\ prompt_put = FALSE
    /\ raw_batched_generate_ids = None
    /\ all_is_finished = FALSE
    /\ is_finished = <<>>
    /\ infer_streamers = <<>>
    /\ token_idxs = <<>>
    /\ streamed = [k \in 1..Len(infer_requests) |-> <<>>]
    /\ FoIdle
    /\ CfIdle
    /\ TlIdle
    /\ AdIdle
    /\ MpIdle
    /\ LzIdle
    /\ ItIdle
    /\ VlIdle
    /\ BgIdle
    /\ ClIdle

NextPt ==
    \/ InferCallFull
    \/ InferCallStream
    \/ InferReturn
    \/ DecodeStep
    \/ GenPutPrompt
    \/ GenPutTokens
    \/ GenEnd
    \/ GenRaise

SpecPt == InitPt /\ [][NextPt]_vars

\* ------------------------------------------------------ claims: PtEngine

N == Len(infer_requests)

CeilDiv(a, b) == (a + b - 1) \div b

\* The entry of request k in a yielded snapshot, and the log's entries
Entry(e, k) == e.res[k]

Log == 1..Len(yielded)

\* C1: a non-streaming infer over N requests with max_batch_size B makes
\* exactly ceil(N/B) sub-batch calls, over the consecutive ranges
\* [0,B), [B,2B), ..., each of size B but possibly the last, and returns a
\* list of length N whose k-th entry is the response to request k.
C1_FullChunking ==
    (pc = "done" /\ ~stream) =>
        /\ Len(calls) = CeilDiv(N, max_batch_size)
        /\ \A c \in 1..Len(calls) :
            /\ calls[c].start = (c - 1) * max_batch_size
            /\ calls[c].size = Min(max_batch_size, N - calls[c].start)
            /\ calls[c].size >= 1
        /\ Len(res) = N
        /\ \A k \in 1..N : res[k].req = infer_requests[k]

C1_Witness ==
    /\ pc = "done" /\ ~stream
    /\ N = 3 /\ max_batch_size = 2
    /\ calls = <<[start |-> 0, size |-> 2], [start |-> 2, size |-> 1]>>
    /\ Len(res) = 3

\* C2: in a streaming infer every yielded snapshot has length N, entry k
\* only carries a response of request k, the non-None entries lie inside
\* the range [i, i+B) of the sub-batch being decoded, and the snapshots of
\* a sub-batch all come before those of the next one.
C2_StreamSnapshots ==
    \A j \in Log :
        /\ Len(yielded[j].res) = N
        /\ \A k \in 1..N :
            Entry(yielded[j], k) # None =>
                /\ Entry(yielded[j], k)[1].req = infer_requests[k]
                /\ yielded[j].i < k
                /\ k <= yielded[j].i + max_batch_size
        /\ yielded[j].i <= i
        /\ (pc \in {"call", "done"} => yielded[j].i < i)
        /\ \A h \in 1..(j - 1) : yielded[h].i <= yielded[j].i

C2_Witness ==
    /\ pc = "done" /\ stream
    /\ N = 3 /\ max_batch_size = 2
    /\ \E j \in Log : yielded[j].i = 2 /\ Entry(yielded[j], 3) # None
    /\ \E j \in Log : yielded[j].i = 0 /\ Entry(yielded[j], 2) # None

\* The deltas yielded for request k, concatenated in yield order
RECURSIVE DeltasAt(_, _)
DeltasAt(log, k) ==
    IF log = <<>> THEN <<>>
    ELSE (IF Entry(Head(log), k) = None THEN <<>> ELSE Entry(Head(log), k)[1].delta)
            \o DeltasAt(Tail(log), k)

\* C3: for every request, the deltas of its yielded responses, concatenated
\* in yield order, are exactly the deltas its InferStreamer returned, in
\* order; and once its sub-batch's loop has ended they are the whole
\* decoded text of the row.
C3_DeltasConcatenate ==
    /\ \A k \in 1..N : DeltasAt(yielded, k) = streamed[k]
    /\ (stream /\ all_is_finished /\ thread = "ended") =>
            \A r \in 1..Len(samples) :
                DeltasAt(yielded, samples[r]) = SafeDecode(generated[r])

C3_Witness ==
    /\ pc = "done" /\ stream /\ N >= 2 /\ max_batch_size = 1
    /\ \A k \in 1..N : Len(DeltasAt(yielded, k)) >= 2
    /\ \E k \in 1..N : Cardinality({j \in Log : Entry(yielded[j], k) # None}) >= 3

\* The log positions that carry a terminal response of request k
Terminals(k) ==
    {j \in Log : /\ Entry(yielded[j], k) # None
                 /\ Entry(yielded[j], k)[1].finish_reason # "None"}

\* The row of request k has its finished flag set
RowDone(k) ==
    \/ k <= i
    \/ pc = "decode" /\ \E r \in 1..Len(samples) : samples[r] = k /\ is_finished[r]

\* C4: a row's finished flag goes from false to true and never back; the
\* row has yielded exactly one response with a non-None finish_reason once
\* its flag is set, none before, and nothing after that response.
C4_FinishedOnce ==
    /\ [](stream /\ pc # "raised" =>
            \A k \in 1..N :
                /\ Cardinality(Terminals(k)) = (IF RowDone(k) THEN 1 ELSE 0)
                /\ \A j \in Terminals(k) :
                    \A h \in (j + 1)..Len(yielded) : Entry(yielded[h], k) = None)
    /\ [][started' = started =>
            \A r \in DOMAIN is_finished : is_finished[r] => is_finished'[r]]_vars

C4_Witness ==
    /\ pc = "done" /\ stream
    /\ \E k \in 1..N :
        /\ Cardinality({j \in Log : Entry(yielded[j], k) # None}) >= 2
        /\ Cardinality(Terminals(k)) = 1

\* C5: once a row has produced its end token and been padded, every later
\* snapshot holds None at that row's index (and keeps length N).
C5_EndedRowIsNone ==
    \A j \in Log :
        /\ Len(yielded[j].res) = N
        /\ \A k \in yielded[j].ended : Entry(yielded[j], k) = None

\* C6: a streamed response with a non-None finish_reason has 'length' iff
\* the row's completion token count has reached max_tokens, else 'stop'.
C6_StreamFinishReason ==
    \A j \in Log : \A k \in 1..N :
        (Entry(yielded[j], k) # None /\ Entry(yielded[j], k)[1].finish_reason # "None") =>
            /\ Entry(yielded[j], k)[1].finish_reason \in {"length", "stop"}
            /\ (Entry(yielded[j], k)[1].finish_reason = "length"
                    <=> Entry(yielded[j], k)[1].completion_tokens >= max_new_tokens)

\* C7: a non-streaming response's finish_reason is never None: it is
\* 'length' iff completion_tokens = max_tokens, and 'stop' otherwise.
C7_FullFinishReason ==
    \A k \in 1..Len(res) :
        /\ res[k].finish_reason \in {"length", "stop"}
        /\ (res[k].finish_reason = "length"
                <=> res[k].completion_tokens = max_new_tokens)

\* C8: streaming with num_beams != 1 raises before any generation thread
\* is started and before any snapshot is yielded; the first pass raises.
C8_BeamSearchFailsFast ==
    (stream /\ num_beams # 1) =>
        /\ pc \in {"call", "raised"}
        /\ (pc = "call" => calls = <<>>)
        /\ started = 0 /\ thread = "idle"
        /\ streamer = <<>>
        /\ yielded = <<>>

C8_Witness ==
    pc = "raised" /\ stream /\ num_beams # 1 /\ started = 0 /\ yielded = <<>>

\* C10: when model.generate raises in the background thread the consumer
\* is not left blocked on the streamer: it has raised, or its next(streamer)
\* can still return.
C10_GenerateErrorReachesConsumer ==
    thread = "crashed" => (pc = "raised" \/ StreamerReady)

\* the log positions that carry a response of request k
Responses(k) == {j \in Log : Entry(yielded[j], k) # None}

Responded ==
    {r \in 1..Len(samples) :
        \/ streamed'[samples[r]] # streamed[samples[r]]
        \/ (~is_finished[r] /\ is_finished'[r])}

\* C29: every snapshot the decode loop yields has length batch_size and holds
\* at least one response, at the rows that produced one; a decode step in
\* which no row produced a response yields nothing.
C29_DecodeSnapshots ==
    [][pc = "decode" =>
          /\ Len(yielded') \in {Len(yielded), Len(yielded) + 1}
          /\ Responded = {} => yielded' = yielded
          /\ Len(yielded') = Len(yielded) + 1 =>
                LET snapshot == yielded'[Len(yielded')].response IN
                /\ Len(snapshot) = Len(samples)
                /\ \E r \in 1..Len(snapshot) : snapshot[r] # None
                /\ \A r \in 1..Len(snapshot) : snapshot[r] # None <=> r \in Responded
      ]_vars

C29_Witness ==
    /\ pc = "decode"
    /\ Len(samples) = 2
    /\ Len(yielded) >= 2
    /\ Len(yielded[Len(yielded)].response) = 2
    /\ yielded[Len(yielded)].response[1] = None
    /\ yielded[Len(yielded)].response[2] # None
    /\ Len(raw_batched_generate_ids[1]) > num_prompt_tokens + Len(yielded)

\* The log positions of the current sub-batch that carry a response of row r
RowResponses(r) ==
    {j \in 1..Len(yielded) : yielded[j].i = i /\ yielded[j].response[r] # None}

\* The number of the row's generated tokens its emitted responses cover
Covered(r) ==
    IF RowResponses(r) = {} THEN 0
    ELSE LET last == CHOOSE j \in RowResponses(r) : \A h \in RowResponses(r) : h <= j
         IN yielded[last].response[r][1].completion_tokens

\* C32: during a decode loop token_idxs[i] never decreases, equals the number
\* of non-pad generated tokens of row i that its emitted responses cover, and
\* lies between 0 and the row's current non-pad generated length.
C32_TokenIdxs ==
    [][(pc = "decode" /\ pc' = "decode") =>
          \A r \in 1..Len(samples) :
              /\ token_idxs[r] <= token_idxs'[r]
              /\ 0 <= token_idxs'[r]
              /\ token_idxs'[r] <= (IF raw_batched_generate_ids' = None THEN 0
                                     ELSE Len(RowIds(raw_batched_generate_ids', r)))
              /\ token_idxs'[r] = Covered(r)'
      ]_vars

C32_Witness ==
    /\ pc = "decode"
    /\ Len(samples) = 2
    /\ token_idxs[1] = 1
    /\ Len(RowIds(raw_batched_generate_ids, 1)) = 3
    /\ token_idxs[2] = 2
    /\ Cardinality(RowResponses(2)) = 2

\* The tokens of row r covered before the response at log position j
CoveredBefore(j, r) ==
    LET before == {h \in 1..(j - 1) : yielded[h].i = yielded[j].i
                                        /\ yielded[h].response[r] # None}
    IN IF before = {} THEN 0
       ELSE yielded[CHOOSE h \in before : \A g \in before : g <= h]
                .response[r][1].completion_tokens

\* C33: the logprobs of a streamed response cover exactly the tokens emitted
\* since the row's previous response, and the entry of the token at position
\* p is the record computed at decode step p.
C33_LogprobsByCursor ==
    \A j \in 1..Len(yielded) : \A r \in 1..Len(yielded[j].response) :
        yielded[j].response[r] # None =>
            LET entry == yielded[j].response[r][1] IN
            /\ Len(entry.logprobs) = entry.completion_tokens - CoveredBefore(j, r)
            /\ \A k \in 1..Len(entry.logprobs) :
                   /\ entry.logprobs[k].step = CoveredBefore(j, r) + k
                   /\ entry.logprobs[k].found

\* The log positions of the decode loop run that started at offset start
RunLog(start) == {j \in 1..Len(yielded) : yielded[j].i = start}

\* The decode loop run that started at offset start is over
RunOver(start) == start < i \/ pc \in {"call", "done"}

\* C34: within one run of the decode loop no row is finished before the sweep
\* that follows the exhaustion of the token iterator: while the loop runs no
\* finished flag is set, no snapshot before the run's last one carries a
\* finish_reason, and the last snapshot of a run that is over carries a
\* response with a finish_reason for every row.
C34_FinishedOnlyAtExhaustion ==
    stream =>
        /\ pc = "decode" =>
              /\ ~all_is_finished
              /\ \A r \in 1..Len(is_finished) : ~is_finished[r]
        /\ \A j \in 1..Len(yielded) :
              LET snapshot == yielded[j].response
                  last == \A h \in RunLog(yielded[j].i) : h <= j
              IN IF last /\ RunOver(yielded[j].i)
                 THEN \A r \in 1..Len(snapshot) :
                          /\ snapshot[r] # None
                          /\ snapshot[r][1].finish_reason # "None"
                 ELSE \A r \in 1..Len(snapshot) :
                          snapshot[r] # None => snapshot[r][1].finish_reason = "None"

C34_Witness ==
    /\ stream
    /\ pc = "call"
    /\ Len(samples) = 2
    /\ Cardinality(RunLog(0)) >= 3
    /\ RunOver(0)
    /\ \E j \in RunLog(0) : yielded[j].ended # {}
    /\ \A r \in 1..2 : is_finished[r]

\* The decode loop consumes the end of the token iterator in this step.
Exhausts == pc = "decode" /\ streamer # <<>> /\ Head(streamer) = None /\ streamer' = Tail(streamer)

\* C30: the decode loop runs as long as the token iterator is not exhausted
\* and some row is unfinished; consuming the iterator's end runs one more
\* sweep, in which every row is forced finished and every row unfinished so
\* far gets its terminal response, and the loop is over.
C30_LoopTermination ==
    [][/\ pc' = "decode" =>
             /\ ~all_is_finished'
             /\ \E r \in 1..Len(samples') : ~is_finished'[r]
       /\ (pc = "decode" /\ pc' # "decode") => Exhausts
       /\ Exhausts =>
             /\ pc' # "decode"
             /\ all_is_finished'
             /\ raw_batched_generate_ids' = raw_batched_generate_ids
             /\ \A r \in 1..Len(samples) : is_finished'[r]
             /\ Len(yielded') = Len(yielded) + 1
             /\ \A r \in 1..Len(samples) :
                   ~is_finished[r] =>
                       /\ yielded'[Len(yielded')].response[r] # None
                       /\ yielded'[Len(yielded')].response[r][1].finish_reason # "None"
      ]_vars

C30_Witness ==
    /\ pc = "call"
    /\ stream
    /\ all_is_finished
    /\ Len(samples) = 2
    /\ \A r \in 1..Len(samples) : is_finished[r]
    /\ Len(yielded) >= 3
    /\ i < Len(infer_requests)


\* ------------------------------ InferEngine._run_infer (the asyncio thread)

FoN == Len(fo_tasks)

\* The event loop runs the tasks until gather returns or raises
LoopAlive == fo_loop \in {"running", "failing"}

RECURSIVE SumSeq(_)
SumSeq(counts) ==
    IF counts = <<>> THEN 0 ELSE Head(counts) + SumSeq(Tail(counts))

\* how many outputs the tasks have put so far
TotalProduced == SumSeq(fo_produced)

\* the k-th output of task t
Output(t, k) == [task |-> t, seq |-> k]

\* queue.put((i, stream_response)) / queue.put((i, await task))
TaskPut(t) ==
    /\ LoopAlive
    /\ fo_tasks[t] = "run"
    /\ IF fo_stream
       THEN fo_produced[t] < MaxOutputs /\ TotalProduced < MaxProduced
       ELSE fo_produced[t] = 0
    /\ fo_produced' = [fo_produced EXCEPT ![t] = @ + 1]
    /\ fo_queue' = Append(fo_queue, <<t, Some(Output(t, fo_produced[t] + 1))>>)
    /\ UNCHANGED <<fo_stream, fo_tasks, fo_loop, fo_pc, fo_n_finished,
                   fo_outputs, fo_yielded, fo_metrics,
                   restFo>>

\* queue.put((i, None)): the task's completion sentinel
TaskFinish(t) ==
    /\ LoopAlive
    /\ fo_tasks[t] = "run"
    /\ fo_stream \/ fo_produced[t] = 1
    /\ fo_tasks' = [fo_tasks EXCEPT ![t] = "done"]
    /\ fo_queue' = Append(fo_queue, <<t, None>>)
    /\ UNCHANGED <<fo_stream, fo_produced, fo_loop, fo_pc, fo_n_finished,
                   fo_outputs, fo_yielded, fo_metrics,
                   restFo>>

\* The awaited task (or its stream) raises: _run_infer ends without its
\* sentinel and gather hands the exception to _batch_run
TaskRaise(t) ==
    /\ LoopAlive
    /\ fo_tasks[t] = "run"
    /\ fo_tasks' = [fo_tasks EXCEPT ![t] = "failed"]
    /\ fo_loop' = "failing"
    /\ UNCHANGED <<fo_stream, fo_produced, fo_queue, fo_pc, fo_n_finished,
                   fo_outputs, fo_yielded, fo_metrics,
                   restFo>>

\* asyncio.gather returns: asyncio.run ends and so does the thread
LoopFinish ==
    /\ fo_loop = "running"
    /\ \A t \in 1..FoN : fo_tasks[t] = "done"
    /\ fo_loop' = "finished"
    /\ UNCHANGED <<fo_stream, fo_tasks, fo_produced, fo_queue, fo_pc,
                   fo_n_finished, fo_outputs, fo_yielded, fo_metrics,
                   restFo>>

\* asyncio.run cancels the tasks still running and re-raises in the thread,
\* which dies; nothing reaches the queue or the caller
LoopDie ==
    /\ fo_loop = "failing"
    /\ fo_tasks' = [t \in 1..FoN |->
            IF fo_tasks[t] = "run" THEN "cancelled" ELSE fo_tasks[t]]
    /\ fo_loop' = "died"
    /\ UNCHANGED <<fo_stream, fo_produced, fo_queue, fo_pc, fo_n_finished,
                   fo_outputs, fo_yielded, fo_metrics,
                   restFo>>

\* ------------------------------ InferEngine._infer_stream (the consumer)

MetricReset == [op |-> "reset", arg |-> None]
MetricUpdate(output) == [op |-> "update", arg |-> output]

\* `for metric in metrics: metric.reset()`, before the queue and the thread
\* exist
ConsumerReset ==
    /\ fo_pc = "start"
    /\ fo_metrics' = [m \in 1..Len(fo_metrics) |-> Append(fo_metrics[m], MetricReset)]
    /\ fo_pc' = "spawn"
    /\ UNCHANGED <<fo_stream, fo_tasks, fo_produced, fo_queue, fo_loop,
                   fo_n_finished, fo_outputs, fo_yielded, restFo>>

\* Up to the first queue.get(): the queue, the thread start, the buffers;
\* with no task the loop is skipped and outputs is yielded at once
ConsumerStart ==
    /\ fo_pc = "spawn"
    /\ fo_loop' = "running"
    /\ fo_n_finished' = 0
    /\ fo_outputs' = Nones(FoN)
    /\ IF 0 < FoN
       THEN fo_pc' = "get" /\ UNCHANGED fo_yielded
       ELSE fo_pc' = "done" /\ fo_yielded' = Append(fo_yielded, Nones(FoN))
    /\ UNCHANGED <<fo_stream, fo_tasks, fo_produced, fo_queue, fo_metrics,
                   restFo>>

\* queue.get() blocks until the queue holds an item
QueueReady == fo_queue # <<>>

\* the consumer loop with `if outputs[i] is not None` always taken
AlwaysFlush(outputs, t) == TRUE

\* the consumer loop without its `if outputs[i] is not None` branch
NeverFlush(outputs, t) == FALSE

\* the test inverted: `if outputs[i] is None`
FlushWhenFree(outputs, t) == outputs[t] = None

\* `if outputs[i] is not None`: the snapshot already holds an output at i
NeedsFlush(outputs, t) == outputs[t] # None

\* `outputs[i] = output` written to the first slot whatever i is
PlaceFirst(outputs, t, output) == [outputs EXCEPT ![1] = output]

\* `outputs[i] = output`
Place(outputs, t, output) == [outputs EXCEPT ![t] = output]

\* `for metric in metrics: metric.update(output)` placed in the else branch,
\* where the completion sentinels never reach it
UpdateOutputsOnly(log, output) ==
    IF output = None THEN log ELSE Append(log, MetricUpdate(output))

\* metric.update(output), as one observer sees it
Update(log, output) == Append(log, MetricUpdate(output))

\* One pass of `while n_finished < len(new_tasks)`, and the final yield
\* when the loop ends
ConsumerGet ==
    /\ fo_pc = "get"
    /\ QueueReady
    /\ LET t == Head(fo_queue)[1]
           output == Head(fo_queue)[2]
           n == IF output = None THEN fo_n_finished + 1 ELSE fo_n_finished
           flush == output # None /\ NeedsFlush(fo_outputs, t)
           yielded1 == IF flush THEN Append(fo_yielded, fo_outputs) ELSE fo_yielded
           outputs0 == IF flush THEN Nones(FoN) ELSE fo_outputs
           outputs1 == IF output = None THEN outputs0
                       ELSE Place(outputs0, t, output)
       IN /\ fo_queue' = Tail(fo_queue)
          /\ fo_n_finished' = n
          /\ fo_outputs' = outputs1
          /\ fo_metrics' = [m \in 1..Len(fo_metrics) |-> Update(fo_metrics[m], output)]
          /\ IF n < FoN
             THEN fo_pc' = "get" /\ fo_yielded' = yielded1
             ELSE fo_pc' = "done" /\ fo_yielded' = Append(yielded1, outputs1)
    /\ UNCHANGED <<fo_stream, fo_tasks, fo_produced, fo_loop, restFo>>

\* ------------------------------------------------- specification: fan-out

PtIdle ==
    /\ infer_requests = <<>>
    /\ max_batch_size = 1
    /\ stream = FALSE
    /\ num_beams = 1
    /\ max_new_tokens = 1
    /\ num_prompt_tokens = 1
    /\ engine_max_model_len = None
    /\ request_max_tokens = None
    /\ pc = "done"
    /\ i = 0
    /\ res = <<>>
    /\ calls = <<>>
    /\ yielded = <<>>
    /\ samples = <<>>
    /\ thread = "idle"
    /\ started = 0
    /\ streamer = <<>>
    /\ generated = <<>>
    /\ prompt_put = FALSE
    /\ raw_batched_generate_ids = None
    /\ all_is_finished = FALSE
    /\ is_finished = <<>>
    /\ infer_streamers = <<>>
    /\ token_idxs = <<>>
    /\ streamed = <<>>

InitFanout ==
    /\ fo_stream \in BOOLEAN
    /\ \E n \in 0..MaxTasks :
        /\ fo_tasks = [t \in 1..n |-> "run"]
        /\ fo_produced = [t \in 1..n |-> 0]
    /\ fo_queue = <<>>
    /\ fo_loop = "idle"
    /\ fo_pc = "start"
    /\ fo_n_finished = 0
    /\ fo_outputs = <<>>
    /\ fo_yielded = <<>>
    /\ \E m \in 0..MaxMetrics : fo_metrics = [k \in 1..m |-> <<>>]
    /\ PtIdle
    /\ CfIdle
    /\ TlIdle
    /\ AdIdle
    /\ MpIdle
    /\ LzIdle
    /\ ItIdle
    /\ VlIdle
    /\ BgIdle
    /\ ClIdle

NextFanout ==
    \/ ConsumerReset
    \/ ConsumerStart
    \/ ConsumerGet
    \/ \E t \in 1..FoN : TaskPut(t)
    \/ \E t \in 1..FoN : TaskFinish(t)
    \/ \E t \in 1..FoN : TaskRaise(t)
    \/ LoopFinish
    \/ LoopDie

SpecFanout == InitFanout /\ [][NextFanout]_vars

\* ------------------------------------------------------ claims: fan-out

\* C9: when a request's task raises in the fan-out path the calling thread
\* observes it: the consumer has raised, or its queue.get() can still
\* return; it is not left blocked on an empty queue behind a dead thread.
C9_TaskErrorReachesCaller ==
    fo_loop = "died" => (fo_pc = "raised" \/ QueueReady)

\* every task has put its completion sentinel
AllTasksDone == \A t \in 1..FoN : fo_tasks[t] = "done"

\* C11: in the non-streaming fan-out, whatever the order in which the tasks
\* complete, the consumer ends once it has dequeued N sentinels, having
\* yielded one snapshot, of length N, whose entry i is the result of task i;
\* it yields nothing earlier and never waits on an empty queue once every
\* task has completed.
C11_FullFanout ==
    ~fo_stream =>
        /\ fo_pc = "done" =>
            /\ fo_n_finished = FoN
            /\ fo_queue = <<>>
            /\ Len(fo_yielded) = 1
            /\ Len(fo_yielded[1]) = FoN
            /\ \A t \in 1..FoN : fo_yielded[1][t] = Some(Output(t, 1))
        /\ fo_pc # "done" => fo_yielded = <<>> /\ fo_n_finished < Max(FoN, 1)
        /\ (fo_pc = "get" /\ AllTasksDone) => QueueReady

C11_Witness ==
    /\ ~fo_stream
    /\ fo_pc = "done"
    /\ FoN = MaxTasks
    /\ fo_yielded = <<[t \in 1..FoN |-> Some(Output(t, 1))]>>

\* the non-None entries found at index t across a sequence of snapshots
RECURSIVE EntriesAt(_, _)
EntriesAt(log, t) ==
    IF log = <<>> THEN <<>>
    ELSE Head(log)[t] \o EntriesAt(Tail(log), t)

\* the stream responses task t has produced, in order
Produced(t) == [k \in 1..fo_produced[t] |-> Output(t, k)]

\* the stream responses of task t still in the queue, in order
RECURSIVE Queued(_, _)
Queued(queue, t) ==
    IF queue = <<>> THEN <<>>
    ELSE (IF Head(queue)[1] = t THEN Head(queue)[2] ELSE <<>>)
         \o Queued(Tail(queue), t)

\* C12: in the streaming fan-out, for every interleaving and every request
\* i, the non-None entries at index i of the yielded snapshots, in yield
\* order, are the stream responses task i produced: when the consumer is
\* done they are all of them, and before that they are the ones that are
\* neither pending in the snapshot being filled nor still in the queue.
C12_StreamFanoutOrder ==
    fo_stream => \A t \in 1..FoN :
        /\ fo_pc = "done" => EntriesAt(fo_yielded, t) = Produced(t)
        /\ fo_pc = "get" =>
             EntriesAt(fo_yielded, t) \o fo_outputs[t] \o Queued(fo_queue, t)
                = Produced(t)

C12_Witness ==
    /\ fo_stream
    /\ fo_pc = "done"
    /\ FoN = MaxTasks
    /\ Len(fo_yielded) = 2
    /\ fo_produced[1] = 1
    /\ fo_produced[2] = MaxOutputs

\* the stream responses the consumer has dequeued so far
Dequeued == TotalProduced - SumSeq([t \in 1..FoN |-> Len(Queued(fo_queue, t))])

C37_SnapshotsNotEmpty ==
    /\ \A j \in 1..Len(fo_yielded) :
          /\ Len(fo_yielded[j]) = FoN
          /\ \/ \E t \in 1..FoN : fo_yielded[j][t] # None
             \/ (fo_pc = "done" /\ TotalProduced = 0 /\ j = Len(fo_yielded))
    /\ (fo_pc = "done" /\ TotalProduced = 0) => fo_yielded = <<Nones(FoN)>>

C37_Witness ==
    /\ fo_stream
    /\ fo_pc = "done"
    /\ FoN = MaxTasks
    /\ TotalProduced = 0
    /\ fo_yielded = <<Nones(MaxTasks)>>

\* a fan-out that yielded several snapshots, each holding an output
C37_WitnessFilled ==
    /\ fo_stream
    /\ fo_pc = "done"
    /\ FoN = MaxTasks
    /\ Len(fo_yielded) = 2
    /\ \E t \in 1..FoN : fo_yielded[2][t] = None

\* the calls of one observer's log that are updates
Updates(log) == SelectSeq(log, LAMBDA c : c.op = "update")

\* C14: every metric observer is reset once, first, before any task has
\* produced an output, and is then updated once per item dequeued: the
\* responses dequeued plus the sentinels dequeued, the latter with None; a
\* finished call of N tasks and M outputs has made M + N updates.
C14_MetricsPerItem ==
    \A m \in 1..Len(fo_metrics) :
        LET log == fo_metrics[m] IN
        /\ fo_pc = "start" => log = <<>> /\ TotalProduced = 0
        /\ fo_pc # "start" =>
            /\ log # <<>>
            /\ Head(log) = MetricReset
            /\ Updates(Tail(log)) = Tail(log)
            /\ Len(Tail(log)) = Dequeued + fo_n_finished
            /\ Len(SelectSeq(Tail(log), LAMBDA c : c.arg = None)) = fo_n_finished
        /\ fo_pc = "done" => Len(Updates(log)) = TotalProduced + FoN

C14_Witness ==
    /\ fo_metrics # <<>>
    /\ fo_stream
    /\ fo_pc = "done"
    /\ FoN = MaxTasks
    /\ Len(Updates(fo_metrics[1])) = MaxProduced + MaxTasks

\* ------------------------------ the resolution of a request's configuration

\* the entry points that read request_config.stream before anything else
StreamReadFirst == {"PtEngine.infer", "PtEngine.infer_async", "InferEngine.infer"}

\* the entry points that start with `request_config or RequestConfig()`
DefaultedFirst == {"PtEngine._infer", "InferEngine.infer_async"}

\* `use_tqdm = not request_config.stream` / `if request_config.stream:` on
\* the argument as passed; on None the attribute read raises
ReadStream ==
    /\ cf_pc = "call"
    /\ cf_entry \in StreamReadFirst
    /\ IF cf_arg = None
       THEN cf_pc' = "raised" /\ cf_error' = "AttributeError"
       ELSE cf_pc' = "default" /\ UNCHANGED cf_error
    /\ UNCHANGED <<cf_entry, cf_arg, cf_request_config, cf_strict,
                   cf_max_model_len, cf_num_tokens, cf_default,
                   cf_generation_config, restCf>>

\* `request_config = request_config or RequestConfig()`
OrDefault ==
    /\ \/ cf_pc = "default"
       \/ cf_pc = "call" /\ cf_entry \in DefaultedFirst
    /\ cf_request_config' =
            IF cf_arg = None THEN Some(DefaultRequestConfig) ELSE cf_arg
    /\ cf_pc' = "budget"
    /\ UNCHANGED <<cf_entry, cf_arg, cf_strict, cf_max_model_len, cf_num_tokens,
                   cf_default, cf_generation_config, cf_error, restCf>>

\* self.set_default_max_tokens(request_config, inputs), or a direct call of
\* it with a strict argument
Budget ==
    /\ \/ cf_pc = "budget"
       \/ cf_pc = "call" /\ cf_entry = "set_default_max_tokens"
    /\ LET request_config == IF cf_pc = "call" THEN cf_arg[1]
                             ELSE cf_request_config[1]
           r == SetDefaultMaxTokens(request_config.max_tokens, cf_max_model_len,
                                    cf_num_tokens, cf_strict)
       IN /\ cf_request_config' =
                Some([request_config EXCEPT !.max_tokens = r.max_tokens])
          /\ IF r.raised
             THEN cf_pc' = "raised" /\ cf_error' = "ValueError"
             ELSE /\ cf_pc' = IF cf_entry = "set_default_max_tokens"
                              THEN "done" ELSE "prepare"
                  /\ UNCHANGED cf_error
    /\ UNCHANGED <<cf_entry, cf_arg, cf_strict, cf_max_model_len, cf_num_tokens,
                   cf_default, cf_generation_config, restCf>>

\* generation_config = self._prepare_generation_config(request_config)
Prepare ==
    /\ cf_pc = "prepare"
    /\ cf_generation_config' =
            Some(PrepareGenerationConfig(cf_request_config[1], cf_default))
    /\ cf_pc' = "done"
    /\ UNCHANGED <<cf_entry, cf_arg, cf_request_config, cf_strict,
                   cf_max_model_len, cf_num_tokens, cf_default, cf_error,
                   restCf>>

\* the request configs a caller passes: every max_tokens, temperature and
\* stream, with none, one, two or all of the other sampling fields given
RequestConfigs ==
    {[max_tokens |-> mt, temperature |-> te, top_k |-> o[1], top_p |-> o[2],
      repetition_penalty |-> o[3], num_beams |-> o[4], stream |-> st] :
        mt \in Optional(0..MaxTokensArg), te \in Optional({0, 7}),
        st \in BOOLEAN,
        o \in {<<None, None, None, None>>, <<Some(20), None, None, None>>,
               <<None, Some(9), None, Some(2)>>,
               <<Some(20), Some(9), Some(12), Some(2)>>}}

InitConfig ==
    /\ cf_entry \in StreamReadFirst \cup DefaultedFirst \cup {"set_default_max_tokens"}
    /\ cf_arg \in {Some(c) : c \in RequestConfigs}
                  \cup (IF cf_entry = "set_default_max_tokens" THEN {} ELSE {None})
    /\ cf_strict \in (IF cf_entry = "set_default_max_tokens" THEN BOOLEAN ELSE {FALSE})
    /\ cf_request_config = None
    /\ cf_max_model_len \in Optional(1..MaxModelLen)
    /\ cf_num_tokens \in 1..MaxPromptTokens
    /\ cf_default \in {EngineDefault(ds, te) : ds \in BOOLEAN, te \in {0, 6}}
    /\ cf_generation_config = None
    /\ cf_pc = "call"
    /\ cf_error = ""
    /\ PtIdle
    /\ FoIdle
    /\ TlIdle
    /\ AdIdle
    /\ MpIdle
    /\ LzIdle
    /\ ItIdle
    /\ VlIdle
    /\ BgIdle
    /\ ClIdle

NextConfig ==
    \/ ReadStream
    \/ OrDefault
    \/ Budget
    \/ Prepare

SpecConfig == InitConfig /\ [][NextConfig]_vars

\* ------------------------------------------- claims: configuration

\* set_default_max_tokens has returned or raised
Budgeted == cf_pc \in {"prepare", "done"} \/ cf_error = "ValueError"

\* max_tokens as the caller gave it
GivenMaxTokens ==
    IF cf_arg = None THEN None ELSE cf_arg[1].max_tokens

\* the model length the budget is taken from: the engine's, 8192 without
KnownMaxModelLen ==
    IF cf_max_model_len = None THEN 8192 ELSE cf_max_model_len[1]

\* C15: after set_default_max_tokens in lenient mode, max_tokens is
\* max_model_len - prompt_token_count when the caller gave None or more than
\* that, and the caller's value otherwise; so prompt_token_count +
\* max_tokens <= max_model_len, and lenient mode does not raise.
C15_LenientBudget ==
    (~cf_strict /\ Budgeted) =>
        LET budget == KnownMaxModelLen - cf_num_tokens
            now == cf_request_config[1].max_tokens
        IN /\ cf_error = ""
           /\ now # None
           /\ (GivenMaxTokens = None \/ GivenMaxTokens[1] > budget) => now[1] = budget
           /\ (GivenMaxTokens # None /\ GivenMaxTokens[1] <= budget) => now = GivenMaxTokens
           /\ cf_num_tokens + now[1] <= KnownMaxModelLen

C15_Witness ==
    /\ ~cf_strict
    /\ cf_pc = "done"
    /\ cf_entry = "set_default_max_tokens"
    /\ GivenMaxTokens = Some(MaxTokensArg)
    /\ cf_request_config[1].max_tokens = Some(1)

\* C40: in lenient mode set_default_max_tokens never raises, and for a
\* prompt of more tokens than max_model_len it leaves max_tokens at the
\* negative number max_model_len - prompt_token_count: nothing keeps the
\* resolved max_tokens from going below 0.
C40_NegativeBudget ==
    (~cf_strict /\ Budgeted) =>
        /\ cf_error = ""
        /\ cf_pc # "raised"
        /\ cf_num_tokens > KnownMaxModelLen =>
              /\ cf_request_config[1].max_tokens = Some(KnownMaxModelLen - cf_num_tokens)
              /\ cf_request_config[1].max_tokens[1] < 0

C40_Witness ==
    /\ ~cf_strict
    /\ cf_pc = "done"
    /\ cf_max_model_len = Some(1)
    /\ cf_num_tokens = 2
    /\ GivenMaxTokens = Some(0)
    /\ cf_request_config[1].max_tokens = Some(0 - 1)

\* C16: in strict mode set_default_max_tokens raises ValueError exactly when
\* the requested max_tokens exceeds max_model_len - prompt_token_count, and
\* then leaves max_tokens as requested; with None or a value within the
\* budget it does what lenient mode does and does not raise.
C16_StrictBudget ==
    (cf_strict /\ Budgeted) =>
        LET budget == KnownMaxModelLen - cf_num_tokens
            now == cf_request_config[1].max_tokens
            exceeds == GivenMaxTokens # None /\ GivenMaxTokens[1] > budget
        IN /\ (cf_error = "ValueError") <=> exceeds
           /\ exceeds => cf_pc = "raised" /\ now = GivenMaxTokens
           /\ GivenMaxTokens = None => cf_pc = "done" /\ now = Some(budget)
           /\ (GivenMaxTokens # None /\ ~exceeds) =>
                cf_pc = "done" /\ now = GivenMaxTokens

C16_Witness ==
    /\ cf_strict
    /\ cf_pc = "raised"
    /\ cf_error = "ValueError"
    /\ cf_max_model_len = Some(MaxModelLen)
    /\ cf_request_config[1].max_tokens = Some(MaxTokensArg)

\* C17: when max_model_len is None, set_default_max_tokens fails with a
\* configuration error if strict validation is requested, and otherwise
\* falls back to 8192.
C17_UnknownLengthStrictFails ==
    (cf_max_model_len = None /\ Budgeted) =>
        IF cf_strict
        THEN cf_pc = "raised" /\ cf_error = "ValueError"
        ELSE /\ cf_error = ""
             /\ GivenMaxTokens = None =>
                    cf_request_config[1].max_tokens = Some(8192 - cf_num_tokens)

\* the request's value of a sampling field, the engine default when None
Resolved(key) ==
    IF cf_request_config[1][key] = None THEN cf_default[key]
    ELSE cf_request_config[1][key][1]

\* C19: _prepare_generation_config gives do_sample = false with
\* temperature 1, top_p 1, top_k 50 exactly when the engine default has
\* do_sample = false or the resolved temperature is 0, and do_sample = true
\* with the field-by-field resolved values otherwise; the temperature it
\* gives is never 0.  (temperature and top_p in tenths.)
C19_GreedyCanonical ==
    cf_generation_config # None =>
        LET generation_config == cf_generation_config[1]
            greedy == ~cf_default.do_sample \/ Resolved("temperature") = 0
        IN /\ generation_config.do_sample <=> ~greedy
           /\ greedy =>
                /\ generation_config.temperature = 10
                /\ generation_config.top_p = 10
                /\ generation_config.top_k = 50
           /\ ~greedy =>
                /\ generation_config.temperature = Resolved("temperature")
                /\ generation_config.top_p = Resolved("top_p")
                /\ generation_config.top_k = Resolved("top_k")
           /\ generation_config.temperature # 0

C19_Witness ==
    /\ cf_generation_config # None
    /\ ~cf_default.do_sample
    /\ cf_request_config[1].temperature = Some(7)
    /\ cf_request_config[1].top_k = Some(20)
    /\ cf_generation_config[1].top_k = 50
    /\ ~cf_generation_config[1].do_sample

\* C20: a call with request_config = None is accepted and resolves as a
\* call with RequestConfig() does: no error, the default config with its
\* max_tokens budgeted, and the generation config prepared from it.
C20_NoneIsDefault ==
    (cf_arg = None /\ cf_pc \in {"done", "raised"}) =>
        LET default == [DefaultRequestConfig EXCEPT
                            !.max_tokens = Some(KnownMaxModelLen - cf_num_tokens)]
        IN /\ cf_pc = "done"
           /\ cf_error = ""
           /\ cf_request_config = Some(default)
           /\ cf_generation_config = Some(PrepareGenerationConfig(default, cf_default))

\* ======================================================================
\* The engines' helper functions: stop words, tool calls, logprobs
\* ======================================================================

\* One entry of a stop-word list: Union[str, List[int], None].
NoWord == [kind |-> "None"]
Word(text) == [kind |-> "str", str |-> text]
IdList(ids) == [kind |-> "list", ids |-> ids]

\* Lists of str as lists of entries.
Words(texts) == [k \in 1..Len(texts) |-> Word(texts[k])]

\* tokenizer.decode over a two-token vocabulary.
TokenText == <<"a", "b">>

RECURSIVE Decode(_)
Decode(ids) ==
    IF ids = <<>> THEN "" ELSE TokenText[Head(ids)] \o Decode(Tail(ids))

\* (x or [])
OrEmpty(list) == IF list = None THEN <<>> ELSE list[1]

ListedNever(stop, stop_word) == FALSE

\* stop_word in stop
Listed(stop, stop_word) == \E k \in 1..Len(stop) : stop[k] = stop_word

\* InferEngine._get_stop_words, the loop from `stop` onwards.
RECURSIVE GetStopWordsFrom(_, _)
GetStopWordsFrom(stop, stop_words) ==
    IF stop_words = <<>> THEN stop
    ELSE LET stop_word == Head(stop_words) IN
         IF stop_word.kind = "None" THEN GetStopWordsFrom(stop, Tail(stop_words))
         ELSE LET text == IF stop_word.kind = "list" THEN Decode(stop_word.ids)
                          ELSE stop_word.str
              IN GetStopWordsFrom(IF Listed(stop, text) THEN stop ELSE Append(stop, text),
                                  Tail(stop_words))

GetStopWords(stop_words) == GetStopWordsFrom(<<>>, stop_words)

\* The list PtEngine._add_stop_words hands to _get_stop_words.
PtStopWords(in) ==
    OrEmpty(in.request_stop) \o Words(in.template_stop_words)
        \o <<in.suffix_last, in.eos_token>>

\* The list VllmEngine._add_stop_words hands to _get_stop_words.
VllmStopWords(in) ==
    OrEmpty(in.request_stop) \o Words(OrEmpty(in.engine_stop))
        \o Words(in.template_stop_words) \o <<in.suffix_last, in.eos_token>>

Returned(value) == [returned |-> TRUE, value |-> value]
NotReturned == [returned |-> FALSE]

PtAddStopWords ==
    /\ tl_pc = "call"
    /\ tl_fn = "PtEngine._add_stop_words"
    /\ tl_out' = Returned(GetStopWords(PtStopWords(tl_in)))
    /\ tl_pc' = "done"
    /\ UNCHANGED <<tl_fn, tl_in, tl_uuids, restTl>>

VllmAddStopWords ==
    /\ tl_pc = "call"
    /\ tl_fn = "VllmEngine._add_stop_words"
    /\ tl_out' = Returned(GetStopWords(VllmStopWords(tl_in)))
    /\ tl_pc' = "done"
    /\ UNCHANGED <<tl_fn, tl_in, tl_uuids, restTl>>

\* The arguments of _add_stop_words: decoding <<1>> gives a word that is also
\* given as text, the engine's default stop words hold a word of their own.
RequestStopEntries == {NoWord, Word("a"), Word("b"), IdList(<<1>>)}

RequestStops ==
    Optional({<<>>} \cup {<<e>> : e \in RequestStopEntries}
                    \cup {<<e, f>> : e, f \in RequestStopEntries})

StopWordInputs ==
    [request_stop : RequestStops,
     engine_stop : Optional({<<>>, <<"a">>, <<"d">>}),
     template_stop_words : {<<>>, <<"a">>, <<"c">>},
     suffix_last : {Word("b"), IdList(<<1, 2>>)},
     eos_token : {NoWord, Word("e")}]

InitStopWords ==
    /\ tl_fn \in {"PtEngine._add_stop_words", "VllmEngine._add_stop_words"}
    /\ tl_in \in StopWordInputs
    /\ tl_fn = "PtEngine._add_stop_words" => tl_in.engine_stop = None

\* split_action_action_input: the agent-style "Action: / Action Input:" parse,
\* (None, None) when the response holds no action.
split_action_action_input(response) ==
    CASE response = "Action: f Action Input: {}" -> <<Some("f"), Some("{}")>>
      [] response = "Action: g Action Input: {x}" -> <<Some("g"), Some("{x}")>>
      [] OTHER -> <<None, None>>

ToolcallResponses == {"hello", "Action: f Action Input: {}", "Action: g Action Input: {x}"}

\* InferEngine._get_toolcall; uuid is what random_uuid() returns if it is called.
GetToolcall(response, finished, uuid) ==
    IF finished THEN None
    ELSE LET action == split_action_action_input(response)[1]
             action_input == split_action_action_input(response)[2]
         IN IF action = None THEN None
            ELSE Some(<<[id |-> <<"toolcall-", uuid>>, type |-> "function",
                         function |-> [name |-> action[1],
                                       arguments |-> action_input[1]]]>>)

CallGetToolcall ==
    /\ tl_pc = "call"
    /\ tl_fn = "InferEngine._get_toolcall"
    /\ LET toolcall == GetToolcall(tl_in.response, tl_in.is_finished, tl_uuids + 1)
       IN /\ tl_out' = Returned(toolcall)
          /\ tl_uuids' = IF toolcall = None THEN tl_uuids ELSE tl_uuids + 1
    /\ tl_pc' = "done"
    /\ UNCHANGED <<tl_fn, tl_in, restTl>>

InitToolcall ==
    /\ tl_fn = "InferEngine._get_toolcall"
    /\ tl_in \in [response : ToolcallResponses, is_finished : BOOLEAN]

\* VllmEngine._prepare_generation_config: kwargs['logprobs'], None when unset.
PreparedLogprobs(request_config) ==
    IF request_config.logprobs
    THEN IF request_config.top_logprobs # None
         THEN Some(Max(1, request_config.top_logprobs[1]))
         ELSE Some(1)
    ELSE None

\* The entries of res_top_logprobs for one token's dict, in dict order; a dict
\* is a list of [token, logprob] items, logprobs are written as text.
RECURSIVE TopLogprobs(_)
TopLogprobs(items) ==
    IF items = <<>> THEN <<>>
    ELSE IF Head(items).logprob = "-inf" THEN TopLogprobs(Tail(items))
         ELSE <<[token |-> TokenText[Head(items).token],
                 logprob |-> Head(items).logprob]>> \o TopLogprobs(Tail(items))

\* logprobs[token_id]
ItemOf(items, token_id) ==
    items[CHOOSE k \in 1..Len(items) : items[k].token = token_id]

\* VllmEngine._get_logprobs; an absent 'top_logprobs' key is None.
GetLogprobs(logprobs_list, token_ids, top_logprobs) ==
    IF logprobs_list = None THEN None
    ELSE Some([content |->
             [k \in 1..Min(Len(logprobs_list[1]), Len(token_ids)) |->
                 [token |-> TokenText[token_ids[k]],
                  logprob |-> ItemOf(logprobs_list[1][k], token_ids[k]).logprob,
                  top_logprobs |-> IF top_logprobs # None
                                   THEN Some(TopLogprobs(logprobs_list[1][k]))
                                   ELSE None]]])

\* VllmEngine._infer_full_async, the logprobs of one output.
VllmInferFullLogprobs ==
    /\ tl_pc = "call"
    /\ tl_fn = "VllmEngine._infer_full_async"
    /\ tl_out' = Returned(GetLogprobs(tl_in.output_logprobs, tl_in.token_ids,
                                      PreparedLogprobs(tl_in.request_config)))
    /\ tl_pc' = "done"
    /\ UNCHANGED <<tl_fn, tl_in, tl_uuids, restTl>>

\* What the backend reports for one generated token: the chosen token and
\* possibly one alternative.
TokenLogprobs(token_id) ==
    {<<[token |-> token_id, logprob |-> "-0.1"]>>}
        \cup {<<[token |-> token_id, logprob |-> "-0.1"], [token |-> 3 - token_id, logprob |-> l]>> :
                 l \in {"-2.3", "-inf"}}
        \cup {<<[token |-> 3 - token_id, logprob |-> "-0.1"], [token |-> token_id, logprob |-> l]>> :
                 l \in {"-2.3", "-inf"}}

InitLogprobs ==
    /\ tl_fn = "VllmEngine._infer_full_async"
    /\ \E request_config \in [logprobs : BOOLEAN, top_logprobs : Optional({0, 2})],
          token_ids \in {<<1>>, <<2, 1>>} :
         \E output_logprobs \in
                IF PreparedLogprobs(request_config) = None THEN {None}
                ELSE {Some(l) : l \in
                        IF Len(token_ids) = 1
                        THEN {<<d>> : d \in TokenLogprobs(token_ids[1])}
                        ELSE {<<d, e>> : d \in TokenLogprobs(token_ids[1]),
                                         e \in TokenLogprobs(token_ids[2])}} :
             tl_in = [request_config |-> request_config, token_ids |-> token_ids,
                      output_logprobs |-> output_logprobs]

InitTools ==
    /\ \/ InitStopWords
       \/ InitToolcall
       \/ InitLogprobs
    /\ tl_out = NotReturned
    /\ tl_pc = "call"
    /\ tl_uuids = 0
    /\ PtIdle
    /\ FoIdle
    /\ CfIdle
    /\ AdIdle
    /\ MpIdle
    /\ LzIdle
    /\ ItIdle
    /\ VlIdle
    /\ BgIdle
    /\ ClIdle

NextTools ==
    \/ PtAddStopWords
    \/ VllmAddStopWords
    \/ CallGetToolcall
    \/ VllmInferFullLogprobs

SpecTools == InitTools /\ [][NextTools]_vars

\* ---- claims about the helper functions

StopWordsResolved ==
    /\ tl_fn \in {"PtEngine._add_stop_words", "VllmEngine._add_stop_words"}
    /\ tl_pc = "done"

\* The text an entry stands for.
TextOf(entry) == IF entry.kind = "list" THEN Decode(entry.ids) ELSE entry.str

Texts(entries) ==
    {TextOf(entries[k]) : k \in {j \in 1..Len(entries) : entries[j].kind # "None"}}

FirstSeen(entries, text) ==
    CHOOSE k \in 1..Len(entries) :
        /\ entries[k].kind # "None"
        /\ TextOf(entries[k]) = text
        /\ \A j \in 1..(k - 1) : entries[j].kind = "None" \/ TextOf(entries[j]) # text

\* stop is the entries' texts, each once, in the order they are first seen.
IsResolutionOf(stop, entries) ==
    /\ \A j, k \in 1..Len(stop) : j < k => stop[j] # stop[k]
    /\ {stop[k] : k \in 1..Len(stop)} = Texts(entries)
    /\ \A j, k \in 1..Len(stop) :
           j < k => FirstSeen(entries, stop[j]) < FirstSeen(entries, stop[k])

RequestTemplateSuffixEos ==
    OrEmpty(tl_in.request_stop) \o Words(tl_in.template_stop_words)
        \o <<tl_in.suffix_last, tl_in.eos_token>>

RequestEngineTemplateSuffixEos ==
    OrEmpty(tl_in.request_stop)
        \o (IF tl_fn = "VllmEngine._add_stop_words"
            THEN Words(OrEmpty(tl_in.engine_stop)) ELSE <<>>)
        \o Words(tl_in.template_stop_words)
        \o <<tl_in.suffix_last, tl_in.eos_token>>

\* C21 as stated: the resolved stop-word list is request stop words, template
\* stop words, the suffix's last element and eos, None skipped, id lists
\* decoded, first occurrences kept, no other word, and _get_stop_words leaves
\* it unchanged.
C21_StopWordsAsStated ==
    StopWordsResolved =>
        /\ IsResolutionOf(tl_out.value, RequestTemplateSuffixEos)
        /\ GetStopWords(Words(tl_out.value)) = tl_out.value

\* C21 amended: in VllmEngine the engine's default stop words come between the
\* request's and the template's; otherwise as stated.
C21_StopWords ==
    StopWordsResolved =>
        /\ IsResolutionOf(tl_out.value, RequestEngineTemplateSuffixEos)
        /\ GetStopWords(Words(tl_out.value)) = tl_out.value

ToolcallReturned ==
    /\ tl_fn = "InferEngine._get_toolcall"
    /\ tl_pc = "done"

Parses(response) == split_action_action_input(response)[1] # None

\* C22: _get_toolcall returns no tool call when the finished flag is false or
\* the response does not parse; when the flag is true and the parse succeeds it
\* returns exactly one record of type 'function' naming the action and its
\* input, with a newly drawn id.
C22_Toolcall ==
    ToolcallReturned =>
        IF tl_in.is_finished /\ Parses(tl_in.response)
        THEN /\ tl_out.value # None
             /\ Len(tl_out.value[1]) = 1
             /\ tl_out.value[1][1].type = "function"
             /\ Some(tl_out.value[1][1].function.name)
                    = split_action_action_input(tl_in.response)[1]
             /\ Some(tl_out.value[1][1].function.arguments)
                    = split_action_action_input(tl_in.response)[2]
             /\ tl_out.value[1][1].id = <<"toolcall-", tl_uuids>>
             /\ tl_uuids = 1
        ELSE tl_out.value = None

\* C27: an entry built by _get_logprobs carries top_logprobs only when the
\* request asked for top logprobs, and then no alternative with logprob -inf.
C27_TopLogprobs ==
    (tl_fn = "VllmEngine._infer_full_async" /\ tl_pc = "done" /\ tl_out.value # None) =>
        \A k \in 1..Len(tl_out.value[1].content) :
            LET entry == tl_out.value[1].content[k] IN
            entry.top_logprobs # None =>
                /\ tl_in.request_config.top_logprobs # None
                /\ \A j \in 1..Len(entry.top_logprobs[1]) :
                       entry.top_logprobs[1][j].logprob # "-inf"

C21_Witness ==
    /\ StopWordsResolved
    /\ tl_fn = "VllmEngine._add_stop_words"
    /\ tl_in.request_stop = Some(<<IdList(<<1>>), Word("a")>>)
    /\ tl_in.engine_stop = Some(<<"d">>)
    /\ tl_in.template_stop_words = <<"a">>
    /\ tl_in.eos_token = NoWord
    /\ tl_out.value = <<"a", "d", "ab">>

\* ======================================================================
\* PtEngine's adapter pool (_lora_request_pool)
\* ======================================================================

MaxAdapterCalls == 3

AdapterNames == {"a", "b"}

\* PtLoRARequest(lora_name, lora_int_id, lora_local_path)
PtLoRARequest ==
    [lora_name : AdapterNames, lora_int_id : {1, 2}, lora_local_path : {"p", "q"}]

RegisteredNever(pool, lora_name) == FALSE

\* lora_request.lora_name in self._lora_request_pool
Registered(pool, lora_name) == pool[lora_name] # None

\* PtEngine._get_adapter_names; loads says whether Swift.from_pretrained
\* returns (TRUE) or raises.
GetAdapterNames(lora_request, loads) ==
    /\ ad_calls < MaxAdapterCalls
    /\ ad_calls' = ad_calls + 1
    /\ ad_request' = Some(lora_request)
    /\ IF Registered(ad_pool, lora_request.lora_name)
       THEN /\ ad_raised' = IF Some(lora_request) = ad_pool[lora_request.lora_name]
                            THEN "" ELSE "AssertionError"
            /\ UNCHANGED <<ad_pool, ad_loaded>>
       ELSE /\ ad_pool' = [ad_pool EXCEPT ![lora_request.lora_name] = Some(lora_request)]
            /\ ad_loaded' = [ad_loaded EXCEPT ![lora_request.lora_name] = @ + 1]
            /\ ad_raised' = IF loads THEN "" ELSE "LoadError"
    /\ UNCHANGED restAd

CallGetAdapterNames ==
    \E lora_request \in PtLoRARequest, loads \in BOOLEAN :
        GetAdapterNames(lora_request, loads)

InitAdapters ==
    /\ ad_pool = [name \in AdapterNames |-> None]
    /\ ad_loaded = [name \in AdapterNames |-> 0]
    /\ ad_request = None
    /\ ad_raised = ""
    /\ ad_calls = 0
    /\ PtIdle
    /\ FoIdle
    /\ CfIdle
    /\ TlIdle
    /\ MpIdle
    /\ LzIdle
    /\ ItIdle
    /\ VlIdle
    /\ BgIdle
    /\ ClIdle

NextAdapters == CallGetAdapterNames

SpecAdapters == InitAdapters /\ [][NextAdapters]_vars

\* C23: the pool is append-only (a registered name keeps its request and
\* stays), the adapter of a name is loaded at most once, and a call naming a
\* registered adapter with another definition fails and leaves the pool as
\* it was.
C23_AdapterPool ==
    [][/\ \A name \in AdapterNames :
             /\ ad_pool[name] # None => ad_pool'[name] = ad_pool[name]
             /\ ad_loaded'[name] <= 1
             /\ ad_loaded'[name] = 1 <=> ad_pool'[name] # None
       /\ \A name \in AdapterNames :
             (/\ ad_request' # None
              /\ ad_request'[1].lora_name = name
              /\ ad_pool[name] # None
              /\ ad_pool[name] # ad_request')
             => ad_raised' = "AssertionError" /\ ad_pool' = ad_pool
       /\ \A name \in AdapterNames :
             (ad_pool[name] = None /\ ad_pool'[name] # None) => ad_pool'[name] = ad_request'
      ]_vars

C23_Witness ==
    /\ ad_calls = 3
    /\ ad_raised = "AssertionError"
    /\ ad_loaded["a"] = 1
    /\ ad_pool["a"] # None
    /\ ad_request # ad_pool["a"]
    /\ ad_request[1].lora_name = "a"
    /\ ad_pool["b"] = None

\* ======================================================================
\* EncodePreprocessor: eager preprocessing
\* ======================================================================

MaxExamples == 3
MaxNumProc == 2

\* Template.encode on one example: it raises, or returns the encoding, which
\* is empty (falsy) for an example that cannot be used.
Encode(data) ==
    [raised |-> data.encode = "raise",
     value |-> IF data.encode = "ok" THEN <<data.id>> ELSE <<>>]

\* EncodePreprocessor.single_map when encode returns: the encoding or None.
single_map(data) == IF Encode(data).value # <<>> THEN Some(Encode(data).value) ELSE None

\* `num_proc = min(num_proc, len(dataset))`; one process when num_proc == 1.
NumProc == IF mp_arg = 1 THEN 1 ELSE Min(mp_arg, Len(mp_dataset))

Ranks == 0..(NumProc - 1)

\* dataset.shard(num_shards, index, contiguous=True)
Shard(dataset, num_shards, index) ==
    LET div == Len(dataset) \div num_shards
        mod == Len(dataset) % num_shards
        start == div * index + Min(index, mod)
        end == start + div + (IF index < mod THEN 1 ELSE 0)
    IN SubSeq(dataset, start + 1, end)

\* [data for data in result if data is not None]
RECURSIVE NotNone(_)
NotNone(result) ==
    IF result = <<>> THEN <<>>
    ELSE (IF Head(result) = None THEN <<>> ELSE <<Head(result)[1]>>) \o NotNone(Tail(result))

\* __call__ with num_proc == 1: one turn of `for data in dataset`.
SingleMap ==
    /\ mp_pc = "map"
    /\ mp_arg = 1
    /\ mp_pos[0] < Len(mp_dataset)
    /\ LET data == mp_dataset[mp_pos[0] + 1] IN
       IF Encode(data).raised
       THEN /\ mp_pc' = "raised"
            /\ mp_error' = "EncodeError"
            /\ UNCHANGED <<mp_pos, mp_res>>
       ELSE /\ mp_pos' = [mp_pos EXCEPT ![0] = @ + 1]
            /\ mp_res' = mp_res \o NotNone(<<single_map(data)>>)
            /\ UNCHANGED <<mp_pc, mp_error>>
    /\ UNCHANGED <<mp_dataset, mp_arg, mp_result, mp_worker, mp_queue,
                   mp_shard_results, mp_order, restMp>>

\* __call__ with num_proc == 1: the loop is over.
SingleReturn ==
    /\ mp_pc = "map"
    /\ mp_arg = 1
    /\ mp_pos[0] = Len(mp_dataset)
    /\ mp_pc' = "returned"
    /\ UNCHANGED <<mp_dataset, mp_arg, mp_pos, mp_result, mp_worker, mp_queue,
                   mp_shard_results, mp_order, mp_res, mp_error, restMp>>

\* _map_mp_single: one turn of the loop, queue.put(None) and single_map; an
\* exception of encode ends the worker, its AsyncResult becomes ready.
WorkerMap(rank) ==
    /\ mp_arg > 1
    /\ mp_worker[rank] = "running"
    /\ mp_pos[rank] < Len(Shard(mp_dataset, NumProc, rank))
    /\ mp_queue' = Append(mp_queue, None)
    /\ LET data == Shard(mp_dataset, NumProc, rank)[mp_pos[rank] + 1] IN
       IF Encode(data).raised
       THEN /\ mp_worker' = [mp_worker EXCEPT ![rank] = "failed"]
            /\ UNCHANGED <<mp_pos, mp_result>>
       ELSE /\ mp_pos' = [mp_pos EXCEPT ![rank] = @ + 1]
            /\ mp_result' = [mp_result EXCEPT ![rank] = Append(@, single_map(data))]
            /\ UNCHANGED mp_worker
    /\ UNCHANGED <<mp_dataset, mp_arg, mp_shard_results, mp_order, mp_pc, mp_res,
                   mp_error, restMp>>

\* _map_mp_single: after the loop, queue.put((rank, res)).
WorkerPut(rank) ==
    /\ mp_arg > 1
    /\ mp_worker[rank] = "running"
    /\ mp_pos[rank] = Len(Shard(mp_dataset, NumProc, rank))
    /\ mp_queue' = Append(mp_queue, <<rank, NotNone(mp_result[rank])>>)
    /\ mp_worker' = [mp_worker EXCEPT ![rank] = "ready"]
    /\ UNCHANGED <<mp_dataset, mp_arg, mp_pos, mp_result, mp_shard_results,
                   mp_order, mp_pc, mp_res, mp_error, restMp>>

PlaceShardByArrival(shard_results, output, arrived) ==
    [shard_results EXCEPT ![arrived] = Some(output[2])]

\* shard_results[output[0]] = output[1]; arrived is the number of results
\* placed before.
PlaceShard(shard_results, output, arrived) ==
    [shard_results EXCEPT ![output[1]] = Some(output[2])]

\* mp_map: one item of _mp_map_unordered.
MpGet ==
    /\ mp_pc = "map"
    /\ mp_arg > 1
    /\ mp_queue # <<>>
    /\ mp_queue' = Tail(mp_queue)
    /\ IF Head(mp_queue) = None
       THEN UNCHANGED <<mp_shard_results, mp_order>>
       ELSE /\ mp_shard_results' = PlaceShard(mp_shard_results, Head(mp_queue), Len(mp_order))
            /\ mp_order' = Append(mp_order, Head(mp_queue)[1])
    /\ UNCHANGED <<mp_dataset, mp_arg, mp_pos, mp_result, mp_worker, mp_pc, mp_res,
                   mp_error, restMp>>

\* the two tests of the break condition the other way round
BreakTestsSwapped == <<"empty", "ready">>

\* `all(async_result.ready() for ...) and queue.empty()`, left to right
BreakTests == <<"ready", "empty">>

\* One test of the break condition as the consumer reads it at this moment
BreakTest(name) ==
    IF name = "ready" THEN \A rank \in Ranks : mp_worker[rank] # "running"
    ELSE mp_queue = <<>>

\* _mp_map_unordered: queue.get(timeout=0.05) raises Empty.
MpEmpty ==
    /\ mp_pc = "map"
    /\ mp_arg > 1
    /\ mp_queue = <<>>
    /\ mp_pc' = "test"
    /\ UNCHANGED <<mp_dataset, mp_arg, mp_pos, mp_result, mp_worker, mp_queue,
                   mp_shard_results, mp_order, mp_res, mp_error, restMp>>

\* _mp_map_unordered: the left operand of the break condition; false sends
\* the consumer back to queue.get.
MpTestFirst ==
    /\ mp_pc = "test"
    /\ mp_pc' = IF BreakTest(BreakTests[1]) THEN "test2" ELSE "map"
    /\ UNCHANGED <<mp_dataset, mp_arg, mp_pos, mp_result, mp_worker, mp_queue,
                   mp_shard_results, mp_order, mp_res, mp_error, restMp>>

\* _mp_map_unordered: the right operand of the break condition, read after
\* the left one; true breaks the loop.
MpBreak ==
    /\ mp_pc = "test2"
    /\ mp_pc' = IF BreakTest(BreakTests[2]) THEN "concat" ELSE "map"
    /\ UNCHANGED <<mp_dataset, mp_arg, mp_pos, mp_result, mp_worker, mp_queue,
                   mp_shard_results, mp_order, mp_res, mp_error, restMp>>

RECURSIVE ConcatShards(_, _)
ConcatShards(shard_results, rank) ==
    IF rank \notin DOMAIN shard_results THEN <<>>
    ELSE shard_results[rank][1] \o ConcatShards(shard_results, rank + 1)

\* mp_map: `for result in shard_results: res += result`; a None entry is not
\* iterable.
MpConcat ==
    /\ mp_pc = "concat"
    /\ IF \E rank \in Ranks : mp_shard_results[rank] = None
       THEN /\ mp_pc' = "raised"
            /\ mp_error' = "TypeError"
            /\ UNCHANGED mp_res
       ELSE /\ mp_pc' = "returned"
            /\ mp_res' = ConcatShards(mp_shard_results, 0)
            /\ UNCHANGED mp_error
    /\ UNCHANGED <<mp_dataset, mp_arg, mp_pos, mp_result, mp_worker, mp_queue,
                   mp_shard_results, mp_order, restMp>>

Examples(n) == [k \in 1..n |-> [id : {k}, encode : {"ok", "empty", "raise"}]]

\* every choice of one example per position, for lists of 2..MaxExamples
Datasets ==
    UNION {{d \in [1..n -> UNION {Examples(n)[k] : k \in 1..n}] :
               \A k \in 1..n : d[k] \in Examples(n)[k]} : n \in 2..MaxExamples}

InitPreprocess ==
    /\ mp_dataset \in Datasets
    /\ mp_arg \in 1..MaxNumProc
    /\ mp_pos = [rank \in Ranks |-> 0]
    /\ mp_result = [rank \in Ranks |-> <<>>]
    /\ mp_worker = [rank \in Ranks |-> "running"]
    /\ mp_queue = <<>>
    /\ mp_shard_results = [rank \in Ranks |-> None]
    /\ mp_order = <<>>
    /\ mp_pc = "map"
    /\ mp_res = <<>>
    /\ mp_error = ""
    /\ PtIdle
    /\ FoIdle
    /\ CfIdle
    /\ TlIdle
    /\ AdIdle
    /\ LzIdle
    /\ ItIdle
    /\ VlIdle
    /\ BgIdle
    /\ ClIdle

NextPreprocess ==
    \/ SingleMap
    \/ SingleReturn
    \/ \E rank \in Ranks : WorkerMap(rank)
    \/ \E rank \in Ranks : WorkerPut(rank)
    \/ MpGet
    \/ MpEmpty
    \/ MpTestFirst
    \/ MpBreak
    \/ MpConcat

SpecPreprocess == InitPreprocess /\ [][NextPreprocess]_vars

\* ---- claims about eager preprocessing

\* The encodings of the examples that encode to something, in their order.
Survivors(examples) ==
    LET kept == SelectSeq(examples, LAMBDA data : data.encode = "ok")
    IN [k \in 1..Len(kept) |-> <<kept[k].id>>]

RECURSIVE SurvivorsFromShard(_)
SurvivorsFromShard(rank) ==
    IF rank >= NumProc THEN <<>>
    ELSE Survivors(Shard(mp_dataset, NumProc, rank)) \o SurvivorsFromShard(rank + 1)

\* C24: whatever the order in which the workers complete, mp_map returns the
\* shard results concatenated in shard-index order, the surviving examples of
\* a shard in their original relative order.
C24_ShardOrder ==
    (mp_arg > 1 /\ mp_pc = "returned") => mp_res = SurvivorsFromShard(0)

C24_Witness ==
    /\ mp_arg = 2
    /\ mp_pc = "returned"
    /\ Len(mp_dataset) = 3
    /\ mp_dataset[1].encode = "empty"
    /\ mp_order = <<1, 0>>
    /\ mp_res = <<<<2>>, <<3>>>>

\* C25: in both paths an example whose encode raises is skipped, the pass goes
\* on and returns the encodings of all other examples; it does not abort.
C25_SkipRaising ==
    /\ mp_pc # "raised"
    /\ mp_pc = "returned" => mp_res = Survivors(mp_dataset)

\* The pool runs every worker process, and the consumer polls.
SpecPreprocessLive ==
    /\ SpecPreprocess
    /\ WF_vars(\E rank \in Ranks : WorkerMap(rank) \/ WorkerPut(rank))
    /\ WF_vars(MpGet \/ MpEmpty \/ MpTestFirst \/ MpBreak)

\* The consumer has left the loop of _mp_map_unordered
LoopOver == mp_pc \in {"concat", "returned", "raised"}

\* How many times the consumer was handed the result message of a shard
Yields(rank) == Cardinality({k \in 1..Len(mp_order) : mp_order[k] = rank})

\* C36: however the workers' puts interleave with the consumer's timed get
\* and the two tests of its break condition, the consumer leaves the loop
\* only when every worker is done and the queue is drained; the result
\* message of a shard whose worker did not fail is handed over exactly once,
\* never twice, and the loop ends.
C36_ConsumerLoop ==
    /\ [](mp_arg > 1 =>
            /\ \A rank \in Ranks : Yields(rank) <= 1
            /\ LoopOver =>
                  /\ mp_queue = <<>>
                  /\ \A rank \in Ranks :
                        /\ mp_worker[rank] # "running"
                        /\ mp_worker[rank] = "ready" => Yields(rank) = 1)
    /\ (mp_arg > 1 /\ mp_pc = "map") ~> LoopOver

C36_Witness ==
    /\ mp_arg = MaxNumProc
    /\ mp_pc = "concat"
    /\ Len(mp_dataset) = 3
    /\ \A rank \in Ranks : mp_worker[rank] = "ready"
    /\ mp_order = <<1, 0>>
    /\ mp_shard_results = [rank \in Ranks |-> Some(Survivors(Shard(mp_dataset, NumProc, rank)))]

\* ======================================================================
\* LazyLLMDataset
\* ======================================================================

MaxTryFetchTime == 4
MaxFetches == 1

\* np.random.permutation(n): the orderings of 0..n-1
IndexPermutations(n) ==
    {perm \in [1..n -> 0..(n - 1)] : \A j, k \in 1..n : j # k => perm[j] # perm[k]}

ResampledAll(perm, try_fetch_time) == perm

\* np.random.permutation(len(self))[:self.try_fetch_time - 1]
Resampled(perm, try_fetch_time) == SubSeq(perm, 1, try_fetch_time - 1)

\* LazyLLMDataset.__getitem__(idx) up to the loop of _try_fetch.
GetItem(idx) ==
    /\ lz_pc # "fetch"
    /\ lz_calls < MaxFetches
    /\ lz_calls' = lz_calls + 1
    /\ lz_idx' = idx
    /\ lz_candidates' \in {<<idx>> \o Resampled(perm, lz_try_fetch_time) :
                                perm \in IndexPermutations(Len(lz_dataset))}
    /\ lz_attempts' = <<>>
    /\ lz_res' = None
    /\ lz_pc' = "fetch"
    /\ UNCHANGED <<lz_dataset, lz_configured, lz_try_fetch_time, restLz>>

\* _try_fetch: one turn of the loop. encode_func may return (inputs, kwargs),
\* of which the first is kept; an exception is logged and the loop goes on.
TryFetch ==
    /\ lz_pc = "fetch"
    /\ Len(lz_attempts) < Len(lz_candidates)
    /\ LET k == lz_candidates[Len(lz_attempts) + 1]
           data == lz_dataset[k + 1]
       IN /\ lz_attempts' = Append(lz_attempts, k)
          /\ IF ~Encode(data).raised /\ Len(Encode(data).value) > 0
             THEN /\ lz_res' = Some(Encode(data).value)
                  /\ lz_pc' = "returned"
             ELSE UNCHANGED <<lz_res, lz_pc>>
    /\ UNCHANGED <<lz_dataset, lz_configured, lz_try_fetch_time, lz_idx,
                   lz_candidates, lz_calls, restLz>>

\* _try_fetch falls off its loop and returns None: __getitem__ raises ValueError.
FetchFails ==
    /\ lz_pc = "fetch"
    /\ Len(lz_attempts) = Len(lz_candidates)
    /\ lz_pc' = "raised"
    /\ UNCHANGED <<lz_dataset, lz_configured, lz_try_fetch_time, lz_idx,
                   lz_candidates, lz_attempts, lz_res, lz_calls, restLz>>

InitLazy ==
    /\ lz_dataset \in Datasets
    /\ lz_configured \in 1..MaxTryFetchTime
    /\ lz_try_fetch_time = Min(lz_configured, Len(lz_dataset))
    /\ lz_idx = 0
    /\ lz_candidates = <<>>
    /\ lz_attempts = <<>>
    /\ lz_pc = "idle"
    /\ lz_res = None
    /\ lz_calls = 0
    /\ PtIdle
    /\ FoIdle
    /\ CfIdle
    /\ TlIdle
    /\ AdIdle
    /\ MpIdle
    /\ ItIdle
    /\ VlIdle
    /\ BgIdle
    /\ ClIdle

NextLazy ==
    \/ \E idx \in 0..(Len(lz_dataset) - 1) : GetItem(idx)
    \/ TryFetch
    \/ FetchFails

SpecLazy == InitLazy /\ [][NextLazy]_vars

\* An attempt on index k fails: encode raises or gives an empty encoding.
FailedAttempt(k) == lz_dataset[k + 1].encode # "ok"

\* C26: __getitem__(idx) makes at most try_fetch_time = min(configured,
\* len(dataset)) >= 1 encode attempts, the first on idx, the others on
\* re-sampled indices of the dataset; it returns the first non-empty encoding,
\* a raising or empty encode being a failed attempt, and raises when every
\* attempt failed.
C26_LazyFetch ==
    /\ lz_try_fetch_time = Min(lz_configured, Len(lz_dataset))
    /\ lz_try_fetch_time >= 1
    /\ Len(lz_attempts) <= lz_try_fetch_time
    /\ lz_attempts # <<>> => lz_attempts[1] = lz_idx
    /\ \A k \in 1..Len(lz_attempts) : lz_attempts[k] \in 0..(Len(lz_dataset) - 1)
    /\ lz_pc = "fetch" => \A k \in 1..Len(lz_attempts) : FailedAttempt(lz_attempts[k])
    /\ lz_pc = "returned" =>
           /\ lz_attempts # <<>>
           /\ \A k \in 1..(Len(lz_attempts) - 1) : FailedAttempt(lz_attempts[k])
           /\ ~FailedAttempt(lz_attempts[Len(lz_attempts)])
           /\ lz_res = Some(<<lz_dataset[lz_attempts[Len(lz_attempts)] + 1].id>>)
    /\ lz_pc = "raised" =>
           /\ Len(lz_attempts) = lz_try_fetch_time
           /\ \A k \in 1..Len(lz_attempts) : FailedAttempt(lz_attempts[k])
           /\ lz_res = None

C26_Witness ==
    /\ lz_pc = "returned"
    /\ lz_configured > Len(lz_dataset)
    /\ Len(lz_attempts) = lz_try_fetch_time
    /\ Len(lz_attempts) = 3
    /\ lz_dataset[lz_attempts[1] + 1].encode = "raise"
    /\ lz_dataset[lz_attempts[2] + 1].encode = "empty"

\* ======================================================================
\* LLMIterableDataset.__iter__
\* ======================================================================

MaxRetries == 3
MaxYields == 4
MaxRestarts == 3

TruthyAlways(value) == TRUE

\* `if value:` on what the mapped dataset hands out
Truthy(value) == Encode(value).value # <<>>

\* The example next(iterator) is about to hand out.
Upcoming == it_dataset[it_pos + 1]

\* next(iterator) returns a truthy value: it is yielded, `break` leaves the
\* retry loop and the outer loop sets retries to 0 again.
IterYield ==
    /\ it_pc = "next"
    /\ it_pos < Len(it_dataset)
    /\ ~Encode(Upcoming).raised
    /\ Truthy(Upcoming)
    /\ Len(it_yielded) < MaxYields
    /\ it_yielded' = Append(it_yielded, it_pos + 1)
    /\ it_pos' = it_pos + 1
    /\ it_retries' = 0
    /\ it_log' = Append(it_log, "yield")
    /\ UNCHANGED <<it_dataset, it_max_retries, it_pc, it_restarts, restIt>>

\* `retries += 1; if retries >= self.max_retries: raise e`
Retry(pos) ==
    /\ it_log' = Append(it_log, "fail")
    /\ it_pos' = pos
    /\ it_retries' = it_retries + 1
    /\ it_pc' = IF it_retries + 1 >= it_max_retries THEN "raised" ELSE "next"
    /\ UNCHANGED <<it_dataset, it_max_retries, it_yielded, it_restarts, restIt>>

\* next(iterator) returns a falsy value: ValueError, caught as a retry.
IterFalsy ==
    /\ it_pc = "next"
    /\ it_pos < Len(it_dataset)
    /\ ~Encode(Upcoming).raised
    /\ ~Truthy(Upcoming)
    /\ Retry(it_pos + 1)

\* next(iterator) raises: a retry; the iterator goes on with the following
\* example or, being a generator that raised, is exhausted.
IterRaises ==
    /\ it_pc = "next"
    /\ it_pos < Len(it_dataset)
    /\ Encode(Upcoming).raised
    /\ \E pos \in {it_pos + 1, Len(it_dataset)} : Retry(pos)

\* the restart going on in the retry loop, the counter kept
RetriesKept(retries) == retries

\* `break` out of the retry loop: the outer loop's `retries = 0`
RetriesAfterBreak(retries) == 0

\* StopIteration: `iterator = iter(self.dataset); break`, and the outer loop
\* goes on with retries = 0.
IterExhausted ==
    /\ it_pc = "next"
    /\ it_pos = Len(it_dataset)
    /\ it_restarts < MaxRestarts
    /\ it_restarts' = it_restarts + 1
    /\ it_pos' = 0
    /\ it_retries' = RetriesAfterBreak(it_retries)
    /\ it_log' = Append(it_log, "restart")
    /\ UNCHANGED <<it_dataset, it_max_retries, it_pc, it_yielded, restIt>>

InitIterable ==
    /\ it_dataset \in Datasets
    /\ it_max_retries \in 1..MaxRetries
    /\ it_pos = 0
    /\ it_retries = 0
    /\ it_pc = "next"
    /\ it_yielded = <<>>
    /\ it_restarts = 0
    /\ it_log = <<>>
    /\ PtIdle
    /\ FoIdle
    /\ CfIdle
    /\ TlIdle
    /\ AdIdle
    /\ MpIdle
    /\ LzIdle
    /\ VlIdle
    /\ BgIdle
    /\ ClIdle

NextIterable ==
    \/ IterYield
    \/ IterFalsy
    \/ IterRaises
    \/ IterExhausted

SpecIterable == InitIterable /\ [][NextIterable]_vars

\* C28: the iteration never ends normally; at exhaustion the iterator starts
\* again from the beginning and the iteration goes on; a falsy example is not
\* yielded; every yielded value is a truthy example of the wrapped dataset.
C28_IterableNeverEnds ==
    [][/\ it_pc' # "returned"
       /\ \A k \in 1..Len(it_yielded') :
              /\ it_yielded'[k] \in 1..Len(it_dataset)
              /\ it_dataset[it_yielded'[k]].encode = "ok"
       /\ (it_pc = "next" /\ it_pos = Len(it_dataset)) =>
              /\ it_pos' = 0
              /\ it_pc' = "next"
              /\ it_yielded' = it_yielded
       /\ (it_pc = "next" /\ it_pos < Len(it_dataset) /\ Upcoming.encode = "empty") =>
              /\ it_yielded' = it_yielded
              /\ it_pos' = it_pos + 1
       /\ (it_pc = "next" /\ it_pos < Len(it_dataset) /\ Upcoming.encode = "ok") =>
              it_yielded' = Append(it_yielded, it_pos + 1)
      ]_vars

C28_Witness ==
    /\ it_pc = "next"
    /\ Len(it_dataset) = 3
    /\ it_dataset[1].encode = "empty"
    /\ it_dataset[3].encode = "empty"
    /\ it_yielded = <<2, 2>>
    /\ it_restarts = 1
    /\ it_retries = 0

\* The failed fetches at the end of a log of fetches
RECURSIVE TrailingFails(_)
TrailingFails(log) ==
    IF log = <<>> \/ log[Len(log)] # "fail" THEN 0
    ELSE 1 + TrailingFails(SubSeq(log, 1, Len(log) - 1))

\* The failed fetches of a log of fetches
Fails(log) == Len(SelectSeq(log, LAMBDA e : e = "fail"))

\* C38: the iteration raises only when max_retries fetches in a row have
\* failed, with no yield and no restart of the iterator among them; the
\* counter is the number of failed fetches since the last yield or restart,
\* so failures on either side of a restart are not added.
C38_ConsecutiveFailures ==
    /\ it_retries = TrailingFails(it_log)
    /\ it_pc = "raised" => TrailingFails(it_log) = it_max_retries
    /\ it_pc = "next" => TrailingFails(it_log) < it_max_retries

C38_Witness ==
    /\ it_pc = "raised"
    /\ it_max_retries = 2
    /\ it_restarts >= 1
    /\ Fails(it_log) > it_max_retries
    /\ \E k \in 1..(Len(it_log) - 2) :
          /\ it_log[k] = "fail"
          /\ it_log[k + 1] = "restart"
          /\ it_log[k + 2] = "fail"
          /\ k + 2 < Len(it_log) - 1

\* ======================================================================
\* VllmEngine._infer_stream_async
\* ======================================================================

\* request_config.n: the number of choices of a request
ChoiceCounts == {1, 2}
MaxVllmTokens == 2
MaxVllmResults == 4

\* What the engine can report for a choice in the next result: the choice as
\* it is, or with one more token, finished or not; a finished choice stays.
NextOutputs(output) ==
    IF output.finish_reason # "None" THEN {output}
    ELSE {[token_ids |-> output.token_ids \o extra, finish_reason |-> reason] :
             extra \in {<<>>} \cup (IF Len(output.token_ids) < MaxVllmTokens
                                     THEN {<<t>> : t \in TextTokens} ELSE {}),
             reason \in IF Len(output.token_ids) < MaxVllmTokens
                        THEN {"None", "stop"} ELSE {"length"}}

IsDiffAlways(deltas) == TRUE

\* is_diff: some output has a non-empty delta_text
IsDiff(deltas) == \E k \in 1..Len(deltas) : deltas[k] # <<>>

\* One turn of `async for result in result_generator`: the deltas of the
\* outputs, the skip test, the response with one choice per output.
VllmStreamResult ==
    /\ vl_pc = "stream"
    /\ vl_results < MaxVllmResults
    /\ \E k \in 1..Len(vl_outputs) : vl_outputs[k].finish_reason = "None"
    /\ \E outputs \in {o \in [1..Len(vl_outputs) ->
                               UNION {NextOutputs(vl_outputs[k]) : k \in 1..Len(vl_outputs)}] :
                          \A k \in 1..Len(vl_outputs) : o[k] \in NextOutputs(vl_outputs[k])} :
         LET finished(k) == outputs[k].finish_reason # "None"
             deltas == [k \in 1..Len(outputs) |->
                          GetPrintableText(vl_print_idx[k], outputs[k].token_ids, finished(k))]
             any_finished == \E k \in 1..Len(outputs) : finished(k)
         IN /\ vl_outputs' = outputs
            /\ vl_print_idx' = [k \in 1..Len(outputs) |->
                   NextPrintIdx(vl_print_idx[k], outputs[k].token_ids, finished(k))]
            /\ vl_yielded' =
                   IF ~IsDiff(deltas) /\ ~any_finished THEN vl_yielded
                   ELSE Append(vl_yielded,
                               [k \in 1..Len(outputs) |->
                                   [index |-> k - 1, content |-> deltas[k],
                                    finish_reason |-> outputs[k].finish_reason]])
    /\ vl_results' = vl_results + 1
    /\ UNCHANGED <<vl_pc, restVl>>

\* The generator is over once every choice is finished.
VllmStreamEnd ==
    /\ vl_pc = "stream"
    /\ \A k \in 1..Len(vl_outputs) : vl_outputs[k].finish_reason # "None"
    /\ vl_pc' = "done"
    /\ UNCHANGED <<vl_outputs, vl_print_idx, vl_yielded, vl_results, restVl>>

InitVllmStream ==
    /\ \E n \in ChoiceCounts :
          /\ vl_outputs = [k \in 1..n |-> [token_ids |-> <<>>, finish_reason |-> "None"]]
          /\ vl_print_idx = [k \in 1..n |-> 0]
    /\ vl_yielded = <<>>
    /\ vl_results = 0
    /\ vl_pc = "stream"
    /\ PtIdle
    /\ FoIdle
    /\ CfIdle
    /\ TlIdle
    /\ AdIdle
    /\ MpIdle
    /\ LzIdle
    /\ ItIdle
    /\ BgIdle
    /\ ClIdle

NextVllmStream ==
    \/ VllmStreamResult
    \/ VllmStreamEnd

\* Streaming through either engine: the local decode loop or the vLLM stream.
InitStreaming == InitPt \/ InitVllmStream

NextStreaming == NextPt \/ NextVllmStream

SpecStreaming == InitStreaming /\ [][NextStreaming]_vars

\* C31: a streamed response is non-None only with a non-empty delta or a
\* non-None finish_reason, and a row with an empty delta that is not finished
\* contributes None (local decode loop); the vLLM stream yields a response
\* only if some choice has a non-empty delta or is finished, and skips the
\* result otherwise.
C31_DeltaOrFinished ==
    [][/\ \A j \in 1..Len(yielded') : \A r \in 1..Len(yielded'[j].response) :
             yielded'[j].response[r] # None =>
                 \/ yielded'[j].response[r][1].delta # <<>>
                 \/ yielded'[j].response[r][1].finish_reason # "None"
       /\ (pc = "decode" /\ Len(yielded') > Len(yielded)) =>
             \A r \in 1..Len(samples) :
                 (streamed'[samples[r]] = streamed[samples[r]] /\ ~is_finished'[r])
                     => yielded'[Len(yielded')].response[r] = None
       /\ \A j \in 1..Len(vl_yielded') : \E k \in 1..Len(vl_yielded'[j]) :
             \/ vl_yielded'[j][k].content # <<>>
             \/ vl_yielded'[j][k].finish_reason # "None"
       /\ (vl_pc = "stream" /\ vl_results' > vl_results) =>
             (vl_yielded' = vl_yielded
                 <=> /\ vl_print_idx' = vl_print_idx
                     /\ \A k \in 1..Len(vl_outputs') : vl_outputs'[k].finish_reason = "None")
      ]_vars

C31_Witness ==
    /\ Len(vl_outputs) = 2
    /\ vl_results > Len(vl_yielded)
    /\ vl_yielded # <<>>
    /\ vl_yielded[Len(vl_yielded)][1].content = <<>>
    /\ vl_yielded[Len(vl_yielded)][1].finish_reason = "None"
    /\ vl_yielded[Len(vl_yielded)][2].content # <<>>

\* ------------------------- specification: one RequestConfig, many calls

\* a private copy of the caller's config handed to each call
ConfigOfCallCopied(object, arg) == arg

\* `self._infer(template, infer_requests_samples, request_config, ...)` and
\* `self.infer_async(template, infer_request, request_config, **kwargs)`:
\* every call gets the caller's object itself
ConfigOfCall(object, arg) == object

\* One sub-batch of PtEngine.infer / one request task of InferEngine.infer,
\* up to the generation config: set_default_max_tokens on the object, then
\* _prepare_generation_config reading it. The tasks of InferEngine.infer run
\* this prefix without an await, one after the other in request order.
BudgetCall ==
    /\ bg_pc = "call"
    /\ Len(bg_used) < Len(bg_num_tokens)
    /\ LET k == Len(bg_used) + 1
           max_tokens == ConfigOfCall(bg_request_config, bg_arg)
           r == SetDefaultMaxTokens(max_tokens, bg_max_model_len, bg_num_tokens[k], FALSE)
           request_config == [DefaultRequestConfig EXCEPT !.max_tokens = r.max_tokens]
           generation_config == PrepareGenerationConfig(request_config, EngineDefault(FALSE, 0))
       IN /\ bg_request_config' = r.max_tokens
          /\ bg_used' = Append(bg_used, generation_config.max_new_tokens[1])
    /\ UNCHANGED <<bg_entry, bg_num_tokens, bg_max_model_len, bg_arg, bg_pc, restBg>>

\* `while i < len(infer_requests)` ends / every task has its config
BudgetReturn ==
    /\ bg_pc = "call"
    /\ Len(bg_used) = Len(bg_num_tokens)
    /\ bg_pc' = "done"
    /\ UNCHANGED <<bg_entry, bg_num_tokens, bg_max_model_len, bg_arg,
                   bg_request_config, bg_used, restBg>>

\* The prompt lengths of the calls of one infer
NumTokenLists ==
    UNION {[1..n -> 1..(MaxModelLen + 1)] : n \in 1..MaxRequests}

InitBudget ==
    /\ bg_entry \in {"PtEngine.infer", "InferEngine.infer"}
    /\ bg_num_tokens \in NumTokenLists
    /\ bg_max_model_len \in Optional(1..MaxModelLen)
    /\ bg_arg \in Optional(1..MaxTokensArg)
    /\ bg_request_config = bg_arg
    /\ bg_used = <<>>
    /\ bg_pc = "call"
    /\ PtIdle
    /\ FoIdle
    /\ CfIdle
    /\ TlIdle
    /\ AdIdle
    /\ MpIdle
    /\ LzIdle
    /\ ItIdle
    /\ VlIdle
    /\ ClIdle

NextBudget ==
    \/ BudgetCall
    \/ BudgetReturn

SpecBudget == InitBudget /\ [][NextBudget]_vars

\* The least member of a non-empty set of integers
Least(S) == CHOOSE x \in S : \A y \in S : x <= y

\* What the model has left for the j-th call's prompt
BudgetOf(j) ==
    (IF bg_max_model_len = None THEN 8192 ELSE bg_max_model_len[1]) - bg_num_tokens[j]

\* C35: one RequestConfig object serves every sub-batch / request task and is
\* changed in place: the k-th call generates with the least of the caller's
\* max_tokens (if any) and the budgets of the calls up to k, so the value
\* never rises along the calls, and the caller's object holds the last one.
C35_SharedRequestConfig ==
    /\ \A k \in 1..Len(bg_used) :
          bg_used[k] = Least((IF bg_arg = None THEN {} ELSE {bg_arg[1]})
                               \cup {BudgetOf(j) : j \in 1..k})
    /\ \A k \in 1..(Len(bg_used) - 1) : bg_used[k + 1] <= bg_used[k]
    /\ Len(bg_used) > 0 => bg_request_config = Some(bg_used[Len(bg_used)])

C35_Witness ==
    /\ bg_pc = "done"
    /\ Len(bg_used) = 3
    /\ bg_arg # None
    /\ bg_used[1] < bg_arg[1]
    /\ bg_used[2] = bg_used[1]
    /\ BudgetOf(2) > bg_used[2]
    /\ bg_used[3] < bg_used[2]
    /\ bg_request_config # bg_arg

\* ======================================================================
\* ConstantLengthDataset.__iter__
\* ======================================================================

MaxPackExamples == 4
MaxBufferSize == 2

\* `lens = sum([len(value) if value else 0 for value in example.values()])`
ValueLens == {1, 2}

\* the example fetched first put into the buffer
BufferedFirst(first, second) == first

\* `example = next(iterator)` ... `buffer.append(next(iterator))`: what goes
\* into the buffer is the example of the second call
Buffered(first, second) == second

\* One turn of the inner `while True` in which both next(iterator) return.
FillPair ==
    /\ cl_pc = "fill"
    /\ cl_buffer_len < cl_max_buffer_size
    /\ cl_pos + 2 <= Len(cl_dataset)
    /\ LET example == cl_dataset[cl_pos + 1]
           lens == example.lens
       IN /\ cl_buffer' = Append(cl_buffer, Buffered(example, cl_dataset[cl_pos + 2]))
          /\ cl_buffer_len' = cl_buffer_len + lens
    /\ cl_pos' = cl_pos + 2
    /\ UNCHANGED <<cl_dataset, cl_max_buffer_size, cl_more_examples, cl_pc,
                   cl_sequences, restCl>>

\* One turn in which the first or the second next(iterator) raises
\* StopIteration: an example the first call returned is dropped.
FillStop ==
    /\ cl_pc = "fill"
    /\ cl_buffer_len < cl_max_buffer_size
    /\ cl_pos + 2 > Len(cl_dataset)
    /\ cl_pos' = Len(cl_dataset)
    /\ cl_more_examples' = FALSE
    /\ cl_pc' = "pack"
    /\ UNCHANGED <<cl_dataset, cl_max_buffer_size, cl_buffer, cl_buffer_len,
                   cl_sequences, restCl>>

\* `if buffer_len >= self.max_buffer_size: break`
FillFull ==
    /\ cl_pc = "fill"
    /\ cl_buffer_len >= cl_max_buffer_size
    /\ cl_pc' = "pack"
    /\ UNCHANGED <<cl_dataset, cl_max_buffer_size, cl_pos, cl_buffer, cl_buffer_len,
                   cl_more_examples, cl_sequences, restCl>>

\* The examples of the buffer before the first one encode raises on
RECURSIVE Encoded(_)
Encoded(buffer) ==
    IF buffer = <<>> \/ Encode(Head(buffer)).raised THEN <<>>
    ELSE (IF Encode(Head(buffer)).value = <<>> THEN <<>> ELSE <<Head(buffer).id>>)
         \o Encoded(Tail(buffer))

\* `for example in buffer`: encode, `if not input: continue`, then
\* calculate_matched_group(sequences) and the yields of its groups (the
\* grouping into bins is binpacking's); the next turn of the outer loop
\* starts with an empty buffer.
Pack ==
    /\ cl_pc = "pack"
    /\ IF \E k \in 1..Len(cl_buffer) : Encode(cl_buffer[k]).raised
       THEN /\ cl_pc' = "raised"
            /\ UNCHANGED <<cl_buffer, cl_buffer_len, cl_sequences>>
       ELSE /\ cl_sequences' = cl_sequences \o Encoded(cl_buffer)
            /\ cl_buffer' = <<>>
            /\ cl_buffer_len' = 0
            /\ cl_pc' = IF cl_more_examples THEN "fill" ELSE "done"
    /\ UNCHANGED <<cl_dataset, cl_max_buffer_size, cl_pos, cl_more_examples, restCl>>

\* the examples of a dataset of n: any lengths, any outcome of encode
PackExamples(n) ==
    {[k \in 1..n |-> [id |-> k, lens |-> d[k].lens, encode |-> d[k].encode]] :
        d \in [1..n -> [lens : ValueLens, encode : {"ok", "empty", "raise"}]]}

InitPack ==
    /\ cl_dataset \in UNION {PackExamples(n) : n \in 0..MaxPackExamples}
    /\ cl_max_buffer_size \in {1, MaxBufferSize}
    /\ cl_pos = 0
    /\ cl_buffer = <<>>
    /\ cl_buffer_len = 0
    /\ cl_more_examples = TRUE
    /\ cl_pc = "fill"
    /\ cl_sequences = <<>>
    /\ PtIdle
    /\ FoIdle
    /\ CfIdle
    /\ TlIdle
    /\ AdIdle
    /\ MpIdle
    /\ LzIdle
    /\ ItIdle
    /\ VlIdle
    /\ BgIdle

NextPack ==
    \/ FillPair
    \/ FillStop
    \/ FillFull
    \/ Pack

SpecPack == InitPack /\ [][NextPack]_vars

\* The examples at even positions (from 1) that encode to something
EvenSurvivors ==
    LET even == SelectSeq(cl_dataset, LAMBDA data : data.id % 2 = 0 /\ data.encode = "ok")
    IN [k \in 1..Len(even) |-> even[k].id]

\* C39: the iterator hands out its examples two per filling step; the buffer
\* holds the second example of each of its steps, at the even positions (from
\* 1) up to the last one fetched, and buffer_len is the sum of the lengths of
\* the first examples of those steps. So only examples at even positions are
\* ever packed; a pass that ends has packed all of those that encode to
\* something, in order, and has fetched every example, an unpaired last one
\* included, which is dropped.
C39_EveryOtherExample ==
    /\ \A k \in 1..Len(cl_buffer) :
          /\ cl_buffer[k].id % 2 = 0
          /\ cl_buffer[k].id = (IF cl_pos % 2 = 0 THEN cl_pos ELSE cl_pos - 1)
                                  - 2 * (Len(cl_buffer) - k)
    /\ cl_buffer_len = SumSeq([k \in 1..Len(cl_buffer) |->
                                  cl_dataset[cl_buffer[k].id - 1].lens])
    /\ \A k \in 1..Len(cl_sequences) : cl_sequences[k] % 2 = 0
    /\ cl_pc = "done" =>
          /\ cl_sequences = EvenSurvivors
          /\ cl_pos = Len(cl_dataset)

C39_Witness ==
    /\ cl_pc = "done"
    /\ Len(cl_dataset) = 3
    /\ \A k \in 1..3 : cl_dataset[k].encode = "ok"
    /\ cl_dataset[1].lens # cl_dataset[2].lens
    /\ cl_sequences = <<2>>
    /\ cl_pos = 3

\* a pass over four examples whose buffer was packed twice
C39_WitnessTwoBuffers ==
    /\ cl_pc = "done"
    /\ Len(cl_dataset) = MaxPackExamples
    /\ cl_max_buffer_size = 1
    /\ cl_sequences = <<2, 4>>

====
